---- MODULE Spec2Model ----
(***************************************************************************)
(* A model of the jpeglab baseline JPEG codec (src/jpeglab/src/jpeglab).   *)
(* Bytes are integers 0..255, bit vectors are sequences of 0/1 in the      *)
(* order in which the BitVec holds them, 8x8 tables are functions          *)
(* [0..7 -> [0..7 -> Int]] indexed as the source indexes them ([x][y]).    *)
(***************************************************************************)
EXTENDS Integers, Sequences, FiniteSets, TLC

VARIABLES
    pc,                   \* position of the call being modelled
    buf,                  \* decode: the input byte array
    rpos,                 \* decode_step1: ByteBuffer read position
    width,                \* CompleteJpegData.width
    height,               \* CompleteJpegData.height
    temp_components,      \* decode_step1: Vec<TempComponent>
    quantization_tables,  \* decode_step1: Vec<Rc<QuantizationTable>>
    huffman_tables,       \* decode_step1: BTreeMap<(u8, u8), CachedHuffmanTable>
    scan,                 \* CompleteJpegData.scan
    components,           \* CompleteJpegData.components
    markers,              \* history: the block types handled so far
    dqt_ids,              \* history: the wire id (_id) of each DQT handled
    scan_end,             \* history: how parse_image_data left its loop
    step1,                \* what decode_step1 returned
    step2,                \* what decode_step2 returned
    zigzag_dus,           \* DecodeZigzagMcuCollection.zigzag_dus
    outcome,              \* what decode returned
    out_scan,             \* JpegOutputData.scan
    raw_vec,              \* to_image_data: the packed scan bytes
    image_data,           \* to_image_data: ImageData, the stuffed bytes
    unstuffed,            \* parse_image_data on image_data followed by EOI
    quantized_du,         \* QuantizedDu given to zigzag
    zigzag_du,            \* ZigzagDu returned by zigzag
    restored_du,          \* QuantizedDu returned by to_quantized_du
    codes,                \* JpegHuffmanTable.codes
    bits,                 \* result of generate_bits
    enc_table,            \* entropy_encode_category: huffman_table
    enc_value,            \* entropy_encode_category: value
    enc_bits,             \* what entropy_encode_category returned
    dec_value,            \* what entropy_decode_value returned on enc_bits
    dc_table,             \* DcEncoder.huffman_table and DcDecoder.huffman_table
    dc_values,            \* the DC values given to DcEncoder::next, in order
    dc_pred,              \* DcEncoder.pred
    dc_diffs,             \* history: the diff of each call of DcEncoder::next
    dc_bits,              \* the bits returned by the calls, appended
    dc_sum,               \* DcDecoder.sum
    dc_offset,            \* offset of the reader in dc_bits
    dc_decoded,           \* the values returned by DcDecoder::decode, in order
    out_data,             \* encode_step7: the JpegOutputData given
    dqts,                 \* encode_step7: Vec<DQT>
    out_sof0,             \* encode_step7: SOF0
    dhts,                 \* encode_step7: Vec<DHT>
    file_image_data,      \* encode_step7: image_data
    output,               \* encode_step7: the bytes written to output
    written,              \* history: <<segment, offset in output>> per write
    file_result,          \* what encode_step7 returned
    ac_symbols,           \* history: the <<run, value>> pairs behind ac_scan
    ac_scan,              \* AcDecoder::decode: scan
    ac_result,            \* what AcDecoder::decode returned, with du
    img_width,            \* MyYuvImage: original_width
    img_height,           \* MyYuvImage: original_height
    img_sample,           \* MyYuvImage: the sample the planes are filled with
    mcus,                 \* McuCollection: mcus
    zigzag_mcus,          \* ZigzagMcuCollection: zigzag_mcus
    enc_scan,             \* what encode_step6 returned, with scan
    read_scan,            \* CompleteJpegData: scan, read back from the file
    step2_result,         \* what decode_step2 returned, with zigzag_dus
    dq_input,             \* QuantizedDu::to_dct_du: self
    dq_table,             \* QuantizedDu::to_dct_du: quantization_table
    dct_du,               \* what to_dct_du returned
    f_input,              \* DctDu::quantize: self
    f_table,              \* DctDu::quantize: table
    quantized,            \* what quantize returned
    b_input,              \* dct: du
    b_dct,                \* what dct returned
    b_idct,               \* what idct returned
    ace_du,               \* encode_du: the coefficients given to the AcEncoder
    ace_idx,              \* encode_du: the number of coefficients given so far
    ace_run,              \* AcEncoder: zero_run_length
    ace_out,              \* the bits each call of the AcEncoder returned
    enc_result            \* what encode returned

decVars == <<buf, rpos, width, height, temp_components, quantization_tables,
             huffman_tables, scan, components, markers, dqt_ids, scan_end,
             step1, step2, zigzag_dus, outcome>>
stuffVars == <<out_scan, raw_vec, image_data, unstuffed>>
zigVars == <<quantized_du, zigzag_du, restored_du>>
huffVars == <<codes, bits>>
vliVars == <<enc_table, enc_value, enc_bits, dec_value>>
\* the variables of the calls added after the Huffman code generation
dcVars == <<dc_table, dc_values, dc_pred, dc_diffs, dc_bits, dc_sum, dc_offset,
           dc_decoded>>
fileVars == <<out_data, dqts, out_sof0, dhts, file_image_data, output, written,
             file_result>>
acVars == <<ac_symbols, ac_scan, ac_result>>
scanVars == <<img_width, img_height, img_sample, mcus, zigzag_mcus, enc_scan,
              read_scan, step2_result>>
numVars == <<dq_input, dq_table, dct_du, f_input, f_table, quantized>>
dctVars == <<b_input, b_dct, b_idct>>
aceVars == <<ace_du, ace_idx, ace_run, ace_out>>
thirdVars == <<dctVars, aceVars, enc_result>>
laterVars == <<vliVars, dcVars, fileVars, acVars, scanVars, numVars, thirdVars>>
vars == <<pc, decVars, stuffVars, zigVars, huffVars, laterVars>>
\* the variables of the calls modelled before them
earlierVars == <<decVars, stuffVars, zigVars, huffVars>>

----------------------------------------------------------------------------
(* Bounds of the explored inputs. *)

\* longest wire byte string placed after the SOS segment
MaxScanWire == 3
\* longest packed scan given to to_image_data
MaxScanLen == 3
\* code lengths 1..MaxCodeLen may carry codewords
MaxCodeLen == 3
\* at most MaxCount codewords per length
MaxCount == 3
\* at most MaxDcLen DC values are given to one DcEncoder
MaxDcLen == 2
\* the scans given to encode_step7 have at most MaxFileScan bits
MaxFileScan == 9
\* test_dc_encoder's values are given in sequences of at most MaxDcTestLen
MaxDcTestLen == 3
\* the scans given to AcDecoder::decode hold at most MaxAcSymbols symbols
MaxAcSymbols == 4
\* the images given to encode_step2 are at most MaxImageWidth wide and
\* MaxImageHeight high
MaxImageWidth == 17
MaxImageHeight == 9

----------------------------------------------------------------------------
(* Marker bytes. *)

MarkerPrefix == 255
MarkerSOI == 216
MarkerEOI == 217
MarkerAPP0 == 224
MarkerDQT == 219
MarkerSOF0 == 192
MarkerDHT == 196
MarkerSOS == 218

APPnMarkers == 225..239

----------------------------------------------------------------------------
(* Bits and bytes. *)

Pow2(n) == 2^n

\* the low `length` bits of c, most significant first:
\* c.view_bits::<Lsb0>().to_owned(); resize(length, false); reverse()
MsbBits(c, length) == [k \in 1..length |-> (c \div Pow2(length - k)) % 2]

\* byte.view_bits::<Lsb0>().to_owned(); bits.reverse()
ByteBits(byte) == MsbBits(byte, 8)

\* ByteBuffer::read_u16 with Endian::BigEndian
U16(hi, lo) == hi * 256 + lo

Max(S) == CHOOSE m \in S : \A n \in S : n <= m

\* the sum of a sequence, the two halves added
RECURSIVE SumSeq(_)
SumSeq(s) ==
    IF Len(s) = 0 THEN 0
    ELSE IF Len(s) = 1 THEN s[1]
    ELSE SumSeq(SubSeq(s, 1, Len(s) \div 2))
         + SumSeq(SubSeq(s, Len(s) \div 2 + 1, Len(s)))

\* the sequences of a sequence one after the other, by halves
RECURSIVE Flatten(_)
Flatten(ss) ==
    IF Len(ss) = 0 THEN <<>>
    ELSE IF Len(ss) = 1 THEN ss[1]
    ELSE Flatten(SubSeq(ss, 1, Len(ss) \div 2))
         \o Flatten(SubSeq(ss, Len(ss) \div 2 + 1, Len(ss)))

Range(f) == {f[i] : i \in DOMAIN f}

Count(f, v) == Cardinality({i \in DOMAIN f : f[i] = v})

Zeros(n) == [k \in 1..n |-> 0]

ErrResult == [kind |-> "Err"]
PanicResult == [kind |-> "Panic"]

----------------------------------------------------------------------------
(* decode_step1.rs: read_block *)

read_block(b, p) ==
    IF p + 2 > Len(b) THEN ErrResult
    ELSE LET length == U16(b[p + 1], b[p + 2]) IN
         IF length < 2 THEN ErrResult
         ELSE IF p + length > Len(b) THEN ErrResult
         ELSE [kind |-> "Ok", block |-> SubSeq(b, p + 3, p + length),
               rpos |-> p + length]

(* decode_step1.rs: parse_app0; the reads are big-endian and fail past the
   end of the block *)
parse_app0(block) ==
    IF Len(block) < 14 THEN ErrResult
    ELSE [kind |-> "Ok",
          app0 |-> [length |-> (Len(block) + 2) % 65536,
                    identifier |-> SubSeq(block, 1, 5),
                    major_version |-> block[6],
                    minor_version |-> block[7],
                    units |-> block[8],
                    x_density |-> U16(block[9], block[10]),
                    y_density |-> U16(block[11], block[12]),
                    x_thumbnail |-> block[13],
                    y_thumbnail |-> block[14]]]

\* the (x, y) of the states of a walk
Positions(walk) == [k \in 1..Len(walk) |-> <<walk[k][1], walk[k][2]>>]

(* decode_step1.rs: parse_dqt.  One pass of an inner loop body after the
   access at (x, y): the next position and the inner loop it belongs to;
   phase 1 is the loop that moves up and to the right. *)
parse_dqt_step(x, y, phase) ==
    IF phase = 1
    THEN IF y = 7 THEN <<x + 1, y, 2>>
         ELSE IF x = 0 THEN <<x, y + 1, 2>>
         ELSE <<x - 1, y + 1, 1>>
    ELSE IF x = 7 THEN <<x, y + 1, 1>>
         ELSE IF y = 0 THEN <<x + 1, y, 1>>
         ELSE <<x + 1, y - 1, 2>>

\* n passes of the loop bodies from the state s = <<x, y, phase>>: the states
\* in which an element is accessed, the first half and then the second
RECURSIVE parse_dqt_walk(_, _)
parse_dqt_walk(s, n) ==
    IF n = 0 THEN <<>>
    ELSE IF n = 1 THEN <<s>>
    ELSE LET left == parse_dqt_walk(s, n \div 2)
             last == left[Len(left)]
         IN  left \o parse_dqt_walk(parse_dqt_step(last[1], last[2], last[3]),
                                 n - n \div 2)

ParseDqtOrder == Positions(parse_dqt_walk(<<0, 0, 1>>, 64))

\* output[x][y] = vals[k] for the positions of `walk` in order; a position
\* never written keeps the Default (0), a later write replaces an earlier one
Scatter(walk, vals) ==
    [x \in 0..7 |-> [y \in 0..7 |->
        LET ks == {k \in 1..Len(walk) : walk[k] = <<x, y>>} IN
        IF ks = {} THEN 0 ELSE vals[Max(ks)]]]

parse_dqt(block) ==
    IF Len(block) < 1 THEN ErrResult
    ELSE LET precision == block[1] \div 16
             size == IF precision = 0 THEN 1 ELSE 2
             entry(k) == IF precision = 0 THEN block[1 + k]
                         ELSE U16(block[2 * k], block[2 * k + 1])
         IN IF Len(block) < 1 + 64 * size THEN ErrResult
            ELSE [kind |-> "Ok", id |-> block[1] % 16,
                  table |-> Scatter(ParseDqtOrder, [k \in 1..64 |-> entry(k)])]

(* decode_step1.rs: parse_sof0 *)
parse_sof0(block) ==
    IF Len(block) < 1 THEN ErrResult
    ELSE IF block[1] # 8 THEN ErrResult
    ELSE IF Len(block) < 6 THEN ErrResult
    ELSE IF block[6] # 3 THEN ErrResult
    ELSE IF Len(block) < 15 THEN ErrResult
    ELSE [kind |-> "Ok",
          height |-> U16(block[2], block[3]),
          width |-> U16(block[4], block[5]),
          comps |-> [i \in 1..3 |->
              [horizontal_sampling_factor |-> block[5 + 3 * i] \div 16,
               vertical_sampling_factor |-> block[5 + 3 * i] % 16,
               quatization_table_id |-> block[6 + 3 * i],
               dc_huffman_table_id |-> 0,
               ac_huffman_table_id |-> 0]]]

\* a mutant: the code is not doubled when the length grows
RECURSIVE generate_bits_no_shift_from(_, _, _, _)
generate_bits_no_shift_from(cs, i, c, ret) ==
    IF i > Len(cs) THEN ret
    ELSE generate_bits_no_shift_from(cs, i + 1, c + cs[i],
             ret \o [j \in 1..cs[i] |-> MsbBits(c + j - 1, i)])

generate_bits_no_shift(cs) == generate_bits_no_shift_from(cs, 1, 0, <<>>)

(* encode_step6.rs: JpegHuffmanTable::generate_bits *)
RECURSIVE generate_bits_from(_, _, _, _)
generate_bits_from(cs, i, c, ret) ==
    IF i > Len(cs) THEN ret
    ELSE generate_bits_from(cs, i + 1, (c + cs[i]) * 2,
             ret \o [j \in 1..cs[i] |-> MsbBits(c + j - 1, i)])

generate_bits(cs) == generate_bits_from(cs, 1, 0, <<>>)

(* encode_step6.rs: JpegHuffmanTable::to_cached; bits[i] aborts when there
   are more values than codewords, HashMap::insert replaces an equal key *)
to_cached(cs, values) ==
    LET bs == generate_bits(cs) IN
    IF Len(values) > Len(bs) THEN PanicResult
    ELSE [kind |-> "Ok",
          table |-> [s \in {values[i] : i \in 1..Len(values)} |->
                        bs[Max({i \in 1..Len(values) : values[i] = s})]]]

(* decode_step1.rs: parse_dht *)
parse_dht(block) ==
    IF Len(block) < 17 THEN ErrResult
    ELSE LET cached == to_cached(SubSeq(block, 2, 17), SubSeq(block, 18, Len(block)))
         IN IF cached.kind = "Panic" THEN PanicResult
            ELSE [kind |-> "Ok", table |-> cached.table,
                  table_class |-> block[1] \div 16, id |-> block[1] % 16]

(* decode_step1.rs: parse_sos; the bytes of component i are read before
   temp_components[i] is indexed *)
RECURSIVE parse_sos_from(_, _, _)
parse_sos_from(block, i, temp) ==
    IF i >= block[1] THEN [kind |-> "Ok", temp |-> temp]
    ELSE IF Len(block) < 1 + 2 * (i + 1) THEN ErrResult
    ELSE IF i >= Len(temp) THEN PanicResult
    ELSE parse_sos_from(block, i + 1,
             [temp EXCEPT ![i + 1].dc_huffman_table_id = block[3 + 2 * i] \div 16,
                          ![i + 1].ac_huffman_table_id = block[3 + 2 * i] % 16])

parse_sos(block, temp) ==
    IF Len(block) < 1 THEN ErrResult ELSE parse_sos_from(block, 0, temp)

(* decode_step1.rs: parse_image_data.  One pass of its loop, for the byte
   at position p: kind "Go" while the loop goes on *)
parse_image_data_pass(b, p, st) ==
    LET byte == b[p + 1] IN
    IF (~st.is_pre_ff /\ byte # MarkerPrefix) \/ (st.is_pre_ff /\ byte = 0)
    THEN [st EXCEPT !.is_pre_ff = FALSE,
             !.scan = @ \o ByteBits(IF st.is_pre_ff THEN MarkerPrefix ELSE byte)]
    ELSE IF ~st.is_pre_ff /\ byte = MarkerPrefix
    THEN [st EXCEPT !.is_pre_ff = TRUE]
    ELSE IF st.is_pre_ff /\ byte = MarkerEOI
    THEN [st EXCEPT !.kind = "Ok", !.rpos = p + 1]
    ELSE [st EXCEPT !.kind = "Err"]

\* the passes for the bytes at lo .. hi - 1, the two halves one after the
\* other, up to the pass that leaves the loop
RECURSIVE parse_image_data_from(_, _, _, _)
parse_image_data_from(b, lo, hi, st) ==
    IF st.kind # "Go" \/ lo >= hi THEN st
    ELSE IF lo + 1 = hi THEN parse_image_data_pass(b, lo, st)
    ELSE parse_image_data_from(b, (lo + hi) \div 2, hi,
             parse_image_data_from(b, lo, (lo + hi) \div 2, st))

\* parse_image_data, reading b from position p: the end of the input ends
\* the loop as EOI does
parse_image_data(b, p) ==
    LET st == parse_image_data_from(b, p, Len(b),
                  [kind |-> "Go", is_pre_ff |-> FALSE, scan |-> <<>>, rpos |-> p])
    IN IF st.kind = "Err" THEN ErrResult
       ELSE IF st.kind = "Ok"
       THEN [kind |-> "Ok", scan |-> st.scan, rpos |-> st.rpos, end |-> "EOI"]
       ELSE [kind |-> "Ok", scan |-> st.scan,
             rpos |-> IF p >= Len(b) THEN p ELSE Len(b), end |-> "EOF"]

----------------------------------------------------------------------------
(* decode_step2.rs *)

\* scan[offset..].starts_with(code)
StartsWithAt(sc, offset, code) ==
    /\ offset + Len(code) <= Len(sc)
    /\ \A k \in 1..Len(code) : sc[offset + k] = code[k]

\* bits.load::<u16>() of a bit vector reversed to Lsb0: the value of the
\* bits read most significant first
RECURSIVE BitsValue(_)
BitsValue(bs) ==
    IF bs = <<>> THEN 0 ELSE 2 * BitsValue(SubSeq(bs, 1, Len(bs) - 1)) + bs[Len(bs)]

(* entropy_decode_category: the symbols whose codeword starts the rest of
   the scan; the HashMap is iterated in an unspecified order and the first
   match is returned, so each of them is a possible result *)
entropy_decode_category(sc, offset, table) ==
    {s \in DOMAIN table : StartsWithAt(sc, offset, table[s])}

(* entropy_decode_value: scan[offset..offset + category] aborts when the
   range ends past the scan *)
entropy_decode_value(sc, offset, category) ==
    IF category \div 16 # 0 THEN ErrResult
    ELSE IF category = 0 THEN [kind |-> "Ok", value |-> 0, offset |-> offset]
    ELSE IF offset + category > Len(sc) THEN PanicResult
    ELSE LET bs == SubSeq(sc, offset + 1, offset + category)
             is_positive == bs[1] = 1
             abs_bits == IF is_positive THEN bs ELSE [k \in 1..Len(bs) |-> 1 - bs[k]]
             abs_value == BitsValue(abs_bits)
         IN [kind |-> "Ok", value |-> IF is_positive THEN abs_value ELSE -abs_value,
             offset |-> offset + category]

(* DcDecoder::decode; self.sum += diff on i16 aborts on overflow in a build
   with overflow checks and wraps in one without *)
WrapI16(n) == ((n + 32768) % 65536) - 32768

DcDecoder_decode(sc, offset, sum, table) ==
    LET ms == entropy_decode_category(sc, offset, table) IN
    IF ms = {} THEN {ErrResult}
    ELSE UNION {
        LET d == entropy_decode_value(sc, offset + Len(table[category]), category) IN
        IF d.kind # "Ok" THEN {[kind |-> d.kind]}
        ELSE IF sum + d.value = WrapI16(sum + d.value)
        THEN {[kind |-> "Ok", sum |-> sum + d.value, offset |-> d.offset]}
        ELSE {PanicResult,
              [kind |-> "Ok", sum |-> WrapI16(sum + d.value), offset |-> d.offset]}
        : category \in ms}

\* a mutant: a run or a coefficient past the end of the DU is dropped
\* silently instead of being an error
RECURSIVE AcDecoder_decode_from_unchecked(_, _, _, _, _)
AcDecoder_decode_from_unchecked(sc, offset, du, idx, table) ==
    IF idx >= Len(du) THEN {[kind |-> "Ok", offset |-> offset, du |-> du]}
    ELSE LET ms == entropy_decode_category(sc, offset, table) IN
         IF ms = {} THEN {ErrResult}
         ELSE UNION {
             LET off1 == offset + Len(table[symbol])
                 zrl == symbol \div 16
                 category == symbol % 16
             IN IF symbol = 0
                THEN {[kind |-> "Ok", offset |-> off1,
                       du |-> [k \in 1..Len(du) |-> IF k > idx THEN 0 ELSE du[k]]]}
                ELSE LET v == entropy_decode_value(sc, off1, category) IN
                     IF v.kind # "Ok" THEN {[kind |-> v.kind]}
                     ELSE AcDecoder_decode_from_unchecked(sc, v.offset,
                              [k \in 1..Len(du) |->
                                  IF k > idx /\ k <= idx + zrl THEN 0
                                  ELSE IF k = idx + zrl + 1 THEN v.value
                                  ELSE du[k]],
                              idx + zrl + 1, table)
             : symbol \in ms}

AcDecoder_decode_unchecked(sc, offset, du, table) ==
    AcDecoder_decode_from_unchecked(sc, offset, du, 1, table)

(* AcDecoder::decode: one pass of `while idx < du.len()`; st holds the
   offset, the DU and idx, and a kind other than "Go" once the pass failed *)
AcDecoder_decode_pass(sc, table, st) ==
    LET ms == entropy_decode_category(sc, st.offset, table) IN
    IF ms = {} THEN {[st EXCEPT !.kind = "Err"]}
    ELSE {
        LET off1 == st.offset + Len(table[symbol])
            zrl == symbol \div 16
            category == symbol % 16
            n == Len(st.du)
        IN IF symbol = 0
           THEN [st EXCEPT !.offset = off1, !.idx = n,
                           !.du = SubSeq(st.du, 1, st.idx) \o Zeros(n - st.idx)]
           ELSE IF st.idx + zrl >= n THEN [st EXCEPT !.kind = "Err"]
           ELSE LET v == entropy_decode_value(sc, off1, category) IN
                IF v.kind # "Ok" THEN [st EXCEPT !.kind = v.kind]
                ELSE [st EXCEPT !.offset = v.offset, !.idx = st.idx + zrl + 1,
                                !.du = SubSeq(st.du, 1, st.idx) \o Zeros(zrl)
                                           \o <<v.value>>
                                           \o SubSeq(st.du, st.idx + zrl + 2, n)]
        : symbol \in ms}

\* up to n passes of the loop, the two halves one after the other
RECURSIVE AcDecoder_decode_from(_, _, _, _)
AcDecoder_decode_from(sc, table, n, st) ==
    IF st.kind # "Go" \/ st.idx >= Len(st.du) \/ n = 0 THEN {st}
    ELSE IF n = 1 THEN AcDecoder_decode_pass(sc, table, st)
    ELSE UNION { AcDecoder_decode_from(sc, table, n - n \div 2, l)
                 : l \in AcDecoder_decode_from(sc, table, n \div 2, st) }

\* every pass but a failing one moves idx on: Len(du) passes reach the end
AcDecoder_decode(sc, offset, du, table) ==
    { IF st.kind = "Go" THEN [kind |-> "Ok", offset |-> st.offset, du |-> st.du]
      ELSE [kind |-> st.kind]
      : st \in AcDecoder_decode_from(sc, table, Len(du),
                   [kind |-> "Go", offset |-> offset,
                    du |-> SubSeq(du, 1, Len(du)), idx |-> 1]) }

\* one DU: the DC coefficient, then the AC coefficients
DecodeDu(sc, offset, sum, component) ==
    UNION {
        IF dc.kind # "Ok" THEN {[kind |-> dc.kind]}
        ELSE { IF ac.kind # "Ok" THEN [kind |-> ac.kind]
               ELSE [kind |-> "Ok", offset |-> ac.offset, sum |-> dc.sum, du |-> ac.du]
               : ac \in AcDecoder_decode(sc, dc.offset,
                            [k \in 1..64 |-> IF k = 1 THEN dc.sum ELSE 0],
                            component.ac_huffman_table) }
        : dc \in DcDecoder_decode(sc, offset, sum, component.dc_huffman_table)}

SamplingProduct(component) ==
    component.horizontal_sampling_factor * component.vertical_sampling_factor

(* decode_step2: the loops over the MCUs, the components and the H * V data
   units of a component.  The components of the data units of one MCU, in
   the order the two inner loops decode them *)
McuSlots(comps) ==
    Flatten([i \in 1..Len(comps) |-> [n \in 1..SamplingProduct(comps[i]) |-> i]])

\* the data units lo..hi of an MCU, the two halves one after the other; st
\* holds the offset, the sums of the DC decoders and the data units so far,
\* and a kind other than "Go" once a data unit failed
RECURSIVE decode_step2_mcu(_, _, _, _, _, _)
decode_step2_mcu(sc, comps, slots, lo, hi, st) ==
    IF st.kind # "Go" \/ lo > hi THEN {st}
    ELSE IF lo = hi
    THEN { IF r.kind # "Ok" THEN [st EXCEPT !.kind = r.kind]
           ELSE [st EXCEPT !.offset = r.offset, !.sums[slots[lo]] = r.sum,
                           !.dus = Append(@, r.du)]
           : r \in DecodeDu(sc, st.offset, st.sums[slots[lo]], comps[slots[lo]]) }
    ELSE UNION { decode_step2_mcu(sc, comps, slots, (lo + hi) \div 2 + 1, hi, l)
                 : l \in decode_step2_mcu(sc, comps, slots, lo, (lo + hi) \div 2, st) }

\* up to n passes of `while offset < scan.len()`, the two halves one after
\* the other; a pass that decodes no data unit is repeated for ever
RECURSIVE decode_step2_from(_, _, _, _, _)
decode_step2_from(sc, comps, slots, n, st) ==
    IF st.kind # "Go" \/ st.offset >= Len(sc) \/ n = 0 THEN {st}
    ELSE IF slots = <<>> THEN {[st EXCEPT !.kind = "Diverge"]}
    ELSE IF n = 1 THEN decode_step2_mcu(sc, comps, slots, 1, Len(slots), st)
    ELSE UNION { decode_step2_from(sc, comps, slots, n - n \div 2, l)
                 : l \in decode_step2_from(sc, comps, slots, n \div 2, st) }

\* every pass but a failing one moves the offset on: Len(sc) passes reach
\* the end of the scan
decode_step2(sc, comps) ==
    { IF st.kind = "Go" /\ st.offset >= Len(sc)
      THEN [kind |-> "Ok", zigzag_dus |-> st.dus]
      ELSE IF st.kind = "Go" THEN [kind |-> "Diverge"]
      ELSE [kind |-> st.kind]
      : st \in decode_step2_from(sc, comps, McuSlots(comps), Len(sc),
                   [kind |-> "Go", offset |-> 0,
                    sums |-> [c \in 1..Len(comps) |-> 0], dus |-> <<>>]) }

----------------------------------------------------------------------------
(* The byte arrays given to decode. *)

Segment(marker, body) ==
    <<MarkerPrefix, marker, (Len(body) + 2) \div 256, (Len(body) + 2) % 256>> \o body

SegSOI == <<MarkerPrefix, MarkerSOI>>
SegEOI == <<MarkerPrefix, MarkerEOI>>
SegAPP0 == Segment(MarkerAPP0, <<74, 70, 73, 70, 0, 1, 1, 0, 0, 1, 0, 1, 0, 0>>)
SegAPP1 == Segment(225, <<69, 120>>)

\* DQT id 0, 8-bit entries 1..64 in wire order
SegDqt0 == Segment(MarkerDQT, <<0>> \o [k \in 1..64 |-> k])
\* DQT id 1, 16-bit entries 257..320 in wire order
SegDqt1 == Segment(MarkerDQT,
               <<17>> \o Flatten([k \in 1..64 |-> <<1, k>>]))

SofBody(precision, h, w, n, sf1, q1, sf2, q2, sf3, q3) ==
    <<precision, h \div 256, h % 256, w \div 256, w % 256, n,
      1, sf1, q1, 2, sf2, q2, 3, sf3, q3>>

\* 16x8, Y sampled 2x1, quantization tables 0, 1, 1
SegSofA == Segment(MarkerSOF0, SofBody(8, 8, 16, 3, 33, 0, 17, 1, 17, 1))
\* 32x16, all components 1x1, quantization table 0
SegSofB == Segment(MarkerSOF0, SofBody(8, 16, 32, 3, 17, 0, 17, 0, 17, 0))


\* DC table (class 0, id 0): symbols 0 and 1 with the codewords 0 and 1
SegDhtDc == Segment(MarkerDHT, <<0>> \o <<2>> \o Zeros(15) \o <<0, 1>>)
\* AC table (class 1, id 0): EOB and 0/1 with the codewords 0 and 1
SegDhtAc == Segment(MarkerDHT, <<16>> \o <<2>> \o Zeros(15) \o <<0, 1>>)

\* SOS naming DC table 0 and AC table 0 for the three components
SegSos == Segment(MarkerSOS, <<3, 1, 0, 2, 0, 3, 0, 0, 63, 0>>)

WireBytes == {0, MarkerPrefix, MarkerEOI}

SeqsUpTo(S, n) == UNION {[1..k -> S] : k \in 0..n}

\* streams that vary which segments are present and in which order
OrderInputs ==
    { h \o q \o f \o t \o s \o e :
        h \in {SegSOI, <<>>, SegAPP1, SegSOI \o SegAPP0},
        q \in {<<>>, SegDqt0, SegDqt0 \o SegDqt1, SegDqt1 \o SegDqt0},
        f \in {<<>>, SegSofA, SegSofA \o SegSofB},
        t \in {<<>>, SegDhtDc, SegDhtDc \o SegDhtAc},
        s \in {<<>>, SegSos \o <<0, MarkerPrefix, MarkerEOI>>},
        e \in {<<>>, SegAPP1, SegSofB, SegEOI} }

\* a complete header followed by every short byte string as the scan
ScanInputs ==
    { SegSOI \o SegAPP0 \o SegDqt0 \o SegDqt1 \o SegSofA \o SegDhtDc
        \o SegDhtAc \o SegSos \o w : w \in SeqsUpTo(WireBytes, MaxScanWire) }

\* malformed segments
BrokenInputs ==
    { <<>>, <<0>>, <<MarkerPrefix>>, <<MarkerPrefix, 1>>,
      SegSOI \o <<MarkerPrefix, MarkerAPP0, 0, 1>>,
      SegSOI \o <<MarkerPrefix, MarkerAPP0, 0, 16>>,
      SegSOI \o Segment(MarkerAPP0, <<74, 70>>),
      SegSOI \o Segment(225, <<>>) \o <<MarkerPrefix, 225, 0>>,
      SegSOI \o Segment(MarkerDQT, <<0, 1, 2>>),
      SegSOI \o <<MarkerPrefix, MarkerDQT, 0>>,
      SegSOI \o Segment(MarkerSOF0, SofBody(12, 8, 16, 3, 33, 0, 17, 1, 17, 1)),
      SegSOI \o Segment(MarkerSOF0, <<8, 0, 8, 0, 16, 1, 1, 17, 0>>),
      SegSOI \o <<MarkerPrefix, MarkerSOF0, 0, 40>>,
      SegSOI \o Segment(MarkerDHT, <<0, 1>>),
      SegSOI \o Segment(MarkerDHT, <<0>> \o <<1>> \o Zeros(15) \o <<0, 1>>),
      SegSOI \o <<MarkerPrefix, MarkerDHT>>,
      SegSOI \o SegSofA \o Segment(MarkerSOS, <<3, 1, 0>>),
      SegSOI \o SegSofA \o <<MarkerPrefix, MarkerSOS, 0, 0>>,
      SegSOI \o SegSofA \o SegSos \o <<MarkerPrefix, MarkerPrefix>> }

Inputs == OrderInputs \cup ScanInputs \cup BrokenInputs

----------------------------------------------------------------------------
(* mod.rs: decode, with decode_step1 one loop pass per action *)

\* decode before its first step, whatever the input
DecStart ==
    /\ rpos = 0
    /\ width = 0
    /\ height = 0
    /\ temp_components = <<>>
    /\ quantization_tables = <<>>
    /\ huffman_tables = <<>>
    /\ scan = <<>>
    /\ components = <<>>
    /\ markers = <<>>
    /\ dqt_ids = <<>>
    /\ scan_end = "none"
    /\ step1 = "none"
    /\ step2 = "none"
    /\ zigzag_dus = <<>>
    /\ outcome = "none"

DecInit ==
    /\ buf \in Inputs
    /\ DecStart

DecIdle ==
    /\ buf = <<>>
    /\ rpos = 0
    /\ width = 0
    /\ height = 0
    /\ temp_components = <<>>
    /\ quantization_tables = <<>>
    /\ huffman_tables = <<>>
    /\ scan = <<>>
    /\ components = <<>>
    /\ markers = <<>>
    /\ dqt_ids = <<>>
    /\ scan_end = "none"
    /\ step1 = "none"
    /\ step2 = "none"
    /\ zigzag_dus = <<>>
    /\ outcome = "none"

StuffIdle == out_scan = <<>> /\ raw_vec = <<>> /\ image_data = <<>> /\ unstuffed = [kind |-> "none"]
ZigIdle ==
    /\ quantized_du = <<>>
    /\ zigzag_du = [kind |-> "none"]
    /\ restored_du = [kind |-> "none"]
HuffIdle == codes = <<>> /\ bits = <<>>
VliIdle ==
    /\ enc_table = <<>>
    /\ enc_value = 0
    /\ enc_bits = [kind |-> "none"]
    /\ dec_value = [kind |-> "none"]
\* none of the later calls has been made
DcIdle ==
    /\ dc_table = <<>>
    /\ dc_values = <<>>
    /\ dc_pred = 0
    /\ dc_diffs = <<>>
    /\ dc_bits = <<>>
    /\ dc_sum = 0
    /\ dc_offset = 0
    /\ dc_decoded = <<>>
FileData == <<dqts, out_sof0, dhts, file_image_data>>
FileIdle ==
    /\ out_data = <<>>
    /\ dqts = <<>>
    /\ out_sof0 = <<>>
    /\ dhts = <<>>
    /\ file_image_data = <<>>
    /\ output = <<>>
    /\ written = <<>>
    /\ file_result = "none"
AcIdle ==
    /\ ac_symbols = <<>>
    /\ ac_scan = <<>>
    /\ ac_result = [kind |-> "none"]
ScanIdle ==
    /\ img_width = 0
    /\ img_height = 0
    /\ img_sample = 0
    /\ mcus = <<>>
    /\ zigzag_mcus = <<>>
    /\ enc_scan = [kind |-> "none"]
    /\ read_scan = <<>>
    /\ step2_result = [kind |-> "none"]
NumIdle ==
    /\ dq_input = <<>>
    /\ dq_table = <<>>
    /\ dct_du = [kind |-> "none"]
    /\ f_input = <<>>
    /\ f_table = <<>>
    /\ quantized = [kind |-> "none"]
DctIdle ==
    /\ b_input = <<>>
    /\ b_dct = <<>>
    /\ b_idct = <<>>
AceIdle ==
    /\ ace_du = <<>>
    /\ ace_idx = 0
    /\ ace_run = 0
    /\ ace_out = <<>>
ThirdIdle == DctIdle /\ AceIdle /\ enc_result = "none"
RestIdle == ScanIdle /\ NumIdle /\ ThirdIdle
LaterIdle == VliIdle /\ DcIdle /\ FileIdle /\ AcIdle /\ RestIdle
\* none of the earlier calls has been made
EarlierIdle == DecIdle /\ StuffIdle /\ ZigIdle /\ HuffIdle

otherVars == <<stuffVars, zigVars, huffVars, laterVars>>

\* decode_step1 returns Err or aborts; decode returns it with `?`
Step1Fails(kind) ==
    /\ step1' = kind
    /\ outcome' = kind
    /\ pc' = "done"
    /\ UNCHANGED <<buf, rpos, width, height, temp_components, quantization_tables,
                   huffman_tables, scan, components, markers, dqt_ids, scan_end,
                   step2, zigzag_dus>>

\* the loop goes on after a block was handled
Step1Goes(block_type) ==
    /\ markers' = Append(markers, block_type)
    /\ UNCHANGED <<pc, buf, components, step1, step2, zigzag_dus, outcome>>

InLoop == pc = "step1" /\ rpos < Len(buf)
HeadingOk == buf[rpos + 1] = MarkerPrefix /\ rpos + 2 <= Len(buf)
BlockType == buf[rpos + 2]
Dispatch(block_types) == InLoop /\ HeadingOk /\ BlockType \in block_types

\* the byte read is not 0xFF, or no block type follows it
BlockHeadingInvalid ==
    /\ InLoop /\ ~HeadingOk
    /\ Step1Fails("Err")
    /\ UNCHANGED otherVars

BlockSOI ==
    /\ Dispatch({MarkerSOI})
    /\ rpos' = rpos + 2
    /\ Step1Goes(BlockType)
    /\ UNCHANGED <<width, height, temp_components, quantization_tables,
                   huffman_tables, scan, dqt_ids, scan_end>>
    /\ UNCHANGED otherVars

BlockAPP0 ==
    /\ Dispatch({MarkerAPP0})
    /\ LET rb == read_block(buf, rpos + 2) IN
       IF rb.kind # "Ok" THEN Step1Fails("Err")
       ELSE IF parse_app0(rb.block).kind # "Ok" THEN Step1Fails("Err")
       ELSE /\ rpos' = rb.rpos
            /\ Step1Goes(BlockType)
            /\ UNCHANGED <<width, height, temp_components, quantization_tables,
                           huffman_tables, scan, dqt_ids, scan_end>>
    /\ UNCHANGED otherVars

BlockAPPn ==
    /\ Dispatch(APPnMarkers)
    /\ LET rb == read_block(buf, rpos + 2) IN
       IF rb.kind # "Ok" THEN Step1Fails("Err")
       ELSE /\ rpos' = rb.rpos
            /\ Step1Goes(BlockType)
            /\ UNCHANGED <<width, height, temp_components, quantization_tables,
                           huffman_tables, scan, dqt_ids, scan_end>>
    /\ UNCHANGED otherVars

BlockDQT ==
    /\ Dispatch({MarkerDQT})
    /\ LET rb == read_block(buf, rpos + 2) IN
       IF rb.kind # "Ok" THEN Step1Fails("Err")
       ELSE LET dqt == parse_dqt(rb.block) IN
            IF dqt.kind # "Ok" THEN Step1Fails("Err")
            ELSE /\ quantization_tables' = Append(quantization_tables, dqt.table)
                 /\ dqt_ids' = Append(dqt_ids, dqt.id)
                 /\ rpos' = rb.rpos
                 /\ Step1Goes(BlockType)
                 /\ UNCHANGED <<width, height, temp_components, huffman_tables, scan,
                                scan_end>>
    /\ UNCHANGED otherVars

BlockSOF0 ==
    /\ Dispatch({MarkerSOF0})
    /\ LET rb == read_block(buf, rpos + 2) IN
       IF rb.kind # "Ok" THEN Step1Fails("Err")
       ELSE LET sof0 == parse_sof0(rb.block) IN
            IF sof0.kind # "Ok" THEN Step1Fails("Err")
            ELSE /\ temp_components' = sof0.comps
                 /\ height' = sof0.height
                 /\ width' = sof0.width
                 /\ rpos' = rb.rpos
                 /\ Step1Goes(BlockType)
                 /\ UNCHANGED <<quantization_tables, huffman_tables, scan, dqt_ids,
                                scan_end>>
    /\ UNCHANGED otherVars

\* BTreeMap::insert: the table of an equal (class, id) is replaced
MapInsert(map, key, value) ==
    [k \in DOMAIN map \cup {key} |-> IF k = key THEN value ELSE map[k]]

BlockDHT ==
    /\ Dispatch({MarkerDHT})
    /\ LET rb == read_block(buf, rpos + 2) IN
       IF rb.kind # "Ok" THEN Step1Fails("Err")
       ELSE LET dht == parse_dht(rb.block) IN
            IF dht.kind # "Ok" THEN Step1Fails(dht.kind)
            ELSE /\ huffman_tables' =
                        MapInsert(huffman_tables, <<dht.table_class, dht.id>>, dht.table)
                 /\ rpos' = rb.rpos
                 /\ Step1Goes(BlockType)
                 /\ UNCHANGED <<width, height, temp_components, quantization_tables,
                                scan, dqt_ids, scan_end>>
    /\ UNCHANGED otherVars

\* SOS and the image data that follows it
BlockSOS ==
    /\ Dispatch({MarkerSOS})
    /\ LET rb == read_block(buf, rpos + 2) IN
       IF rb.kind # "Ok" THEN Step1Fails("Err")
       ELSE LET sos == parse_sos(rb.block, temp_components) IN
            IF sos.kind # "Ok" THEN Step1Fails(sos.kind)
            ELSE LET data == parse_image_data(buf, rb.rpos) IN
                 IF data.kind # "Ok" THEN Step1Fails("Err")
                 ELSE /\ temp_components' = sos.temp
                      /\ scan' = data.scan
                      /\ scan_end' = data.end
                      /\ rpos' = data.rpos
                      /\ Step1Goes(BlockType)
                      /\ UNCHANGED <<width, height, quantization_tables, huffman_tables,
                                     dqt_ids>>
    /\ UNCHANGED otherVars

KnownBlockTypes ==
    {MarkerSOI, MarkerAPP0, MarkerDQT, MarkerSOF0, MarkerDHT, MarkerSOS} \cup APPnMarkers

BlockTypeInvalid ==
    /\ InLoop /\ HeadingOk /\ BlockType \notin KnownBlockTypes
    /\ Step1Fails("Err")
    /\ UNCHANGED otherVars

\* quantization_tables[id], huffman_tables[&(0, id)] and huffman_tables[&(1, id)]
\* abort when the index or the key is missing
Resolvable(t) ==
    /\ t.quatization_table_id < Len(quantization_tables)
    /\ <<0, t.dc_huffman_table_id>> \in DOMAIN huffman_tables
    /\ <<1, t.ac_huffman_table_id>> \in DOMAIN huffman_tables

ResolveComponent(t) ==
    [horizontal_sampling_factor |-> t.horizontal_sampling_factor,
     vertical_sampling_factor |-> t.vertical_sampling_factor,
     quatization_table |-> quantization_tables[t.quatization_table_id + 1],
     dc_huffman_table |-> huffman_tables[<<0, t.dc_huffman_table_id>>],
     ac_huffman_table |-> huffman_tables[<<1, t.ac_huffman_table_id>>]]

\* the loop has ended: the references of the components are resolved
ResolveComponents ==
    /\ pc = "step1" /\ rpos >= Len(buf)
    /\ IF \A i \in 1..Len(temp_components) : Resolvable(temp_components[i])
       THEN /\ components' = [i \in 1..Len(temp_components) |->
                                 ResolveComponent(temp_components[i])]
            /\ step1' = "Ok"
            /\ pc' = "step2"
            /\ UNCHANGED <<buf, rpos, width, height, temp_components,
                           quantization_tables, huffman_tables, scan, markers,
                           dqt_ids, scan_end, step2, zigzag_dus, outcome>>
       ELSE Step1Fails("Panic")
    /\ UNCHANGED otherVars

DecodeStep2 ==
    /\ pc = "step2"
    /\ \E r \in decode_step2(scan, components) :
        /\ step2' = r.kind
        /\ zigzag_dus' = IF r.kind = "Ok" THEN r.zigzag_dus ELSE zigzag_dus
        /\ pc' = IF r.kind = "Ok" THEN "todo"
                 ELSE IF r.kind = "Diverge" THEN "hang" ELSE "done"
        /\ outcome' = IF r.kind \in {"Err", "Panic"} THEN r.kind ELSE outcome
    /\ UNCHANGED <<buf, rpos, width, height, temp_components, quantization_tables,
                   huffman_tables, scan, components, markers, dqt_ids, scan_end, step1>>
    /\ UNCHANGED otherVars

\* mod.rs: the todo!() that ends decode
DecodeTodo ==
    /\ pc = "todo"
    /\ outcome' = "Panic"
    /\ pc' = "done"
    /\ UNCHANGED <<buf, rpos, width, height, temp_components, quantization_tables,
                   huffman_tables, scan, components, markers, dqt_ids, scan_end,
                   step1, step2, zigzag_dus>>
    /\ UNCHANGED otherVars

Init ==
    /\ pc = "step1"
    /\ DecInit
    /\ StuffIdle /\ ZigIdle /\ HuffIdle /\ LaterIdle

Next ==
    \/ BlockHeadingInvalid
    \/ BlockSOI
    \/ BlockAPP0
    \/ BlockAPPn
    \/ BlockDQT
    \/ BlockSOF0
    \/ BlockDHT
    \/ BlockSOS
    \/ BlockTypeInvalid
    \/ ResolveComponents
    \/ DecodeStep2
    \/ DecodeTodo

Spec == Init /\ [][Next]_vars

----------------------------------------------------------------------------
(* Claims about decode and decode_step1, checked under Spec. *)


\* decode_step1 has left its loop and resolved, or tried to resolve, the
\* references of the components
Resolved == step1 # "none" /\ rpos >= Len(buf)

\* C1: decode always returns, and what it returns is Ok or an Err value: it
\* never aborts and never fails to return.
C1_DecodeReturnsOkOrErr ==
    /\ pc = "done" => outcome \in {"Ok", "Err"}
    /\ pc # "hang"

\* C2: decode_step1 returns Ok only for a stream whose first marker is SOI.
C2_FirstMarkerIsSOI ==
    (step1 = "Ok" /\ markers # <<>>) => markers[1] = MarkerSOI

\* C3: decode_step1 returns Ok only for a stream with at most one SOF0
\* segment; a second SOF0 is rejected.
C3_SOF0AtMostOnce ==
    step1 = "Ok" => Count(markers, MarkerSOF0) <= 1

\* C4: once the EOI that ends the scan has been read, decode_step1 reads no
\* further byte of the input and the bytes after EOI cause no error.
C4_NothingReadAfterEOI ==
    [][(pc = "step1" /\ scan_end = "EOI") => (rpos' = rpos /\ step1' # "Err")]_vars

\* C5: when a component names a quantization table or a Huffman table that
\* was never received, decode_step1 returns an Err value: it neither aborts
\* nor returns Ok.
C5_MissingTableIsErr ==
    (Resolved /\ \E i \in 1..Len(temp_components) : ~Resolvable(temp_components[i]))
        => step1 = "Err"

\* C6: after decode_step1 returned Ok, the quantization table of every
\* component was carried by a DQT segment whose wire id is the qt_id that
\* SOF0 declared for the component, in whatever order the DQT segments came.
C6_TableByWireId ==
    step1 = "Ok" =>
        \A i \in 1..Len(components) :
            \E k \in 1..Len(dqt_ids) :
                /\ dqt_ids[k] = temp_components[i].quatization_table_id
                /\ components[i].quatization_table = quantization_tables[k]

\* C7: when the input ends inside the scan, before an EOI marker was seen,
\* decode_step1 does not return Ok with the part of the scan read so far.
C7_TruncatedScanIsNotOk ==
    scan_end = "EOF" => step1 # "Ok"

----------------------------------------------------------------------------
(* encode_step7.rs: JpegOutputData::to_image_data, followed by
   decode_step1.rs: parse_image_data on what it wrote *)

\* the scan as bytes, the first bit of the scan in the most significant
\* place; the places of the last byte past the end of the scan hold the
\* zero bits of the BitVec's freshly allocated storage
PackScan(sc) ==
    [i \in 1..((Len(sc) + 7) \div 8) |->
        SumSeq([j \in 1..8 |->
            IF 8 * (i - 1) + j <= Len(sc)
            THEN sc[8 * (i - 1) + j] * Pow2(8 - j) ELSE 0])]

\* a mutant: the 0x00 after 0xFF is left out
stuff_unstuffed(raw) == raw

\* every byte is pushed, and a 0 after each 0xFF
stuff(raw) ==
    Flatten([i \in 1..Len(raw) |->
        IF raw[i] = MarkerPrefix THEN <<raw[i], 0>> ELSE <<raw[i]>>])

to_image_data(sc) == stuff(PackScan(sc))

BitsOfBytes(bytes) == Flatten([i \in 1..Len(bytes) |-> ByteBits(bytes[i])])

StuffBytes == {0, 90, MarkerEOI, MarkerPrefix}

StuffInit ==
    /\ out_scan \in {BitsOfBytes(S) : S \in SeqsUpTo(StuffBytes, MaxScanLen)}
    /\ raw_vec = <<>>
    /\ image_data = <<>>
    /\ unstuffed = [kind |-> "none"]

ToImageData ==
    /\ pc = "to_image_data"
    /\ raw_vec' = PackScan(out_scan)
    /\ image_data' = to_image_data(out_scan)
    /\ pc' = "parse_image_data"
    /\ UNCHANGED <<out_scan, unstuffed, decVars, zigVars, huffVars, laterVars>>

\* the reader meets the stuffed bytes followed by EOI
ParseImageData ==
    /\ pc = "parse_image_data"
    /\ unstuffed' = parse_image_data(image_data \o <<MarkerPrefix, MarkerEOI>>, 0)
    /\ pc' = "unstuffed"
    /\ UNCHANGED <<out_scan, raw_vec, image_data, decVars, zigVars, huffVars, laterVars>>

InitStuff ==
    pc = "to_image_data" /\ StuffInit /\ DecIdle /\ ZigIdle /\ HuffIdle /\ LaterIdle

NextStuff ==
    \/ ToImageData
    \/ ParseImageData

SpecStuff == InitStuff /\ [][NextStuff]_vars

\* C8: the stuffed bytes hold no 0xFF followed by a byte other than 0x00,
\* and parse_image_data reads back from them, up to the EOI, exactly the
\* bits of the packed bytes, 8 per byte, most significant first.
C8_StuffingRoundTrip ==
    /\ pc # "to_image_data" =>
           \A i \in 1..(Len(image_data) - 1) :
               image_data[i] = MarkerPrefix => image_data[i + 1] = 0
    /\ pc = "unstuffed" =>
           /\ unstuffed.kind = "Ok"
           /\ unstuffed.end = "EOI"
           /\ unstuffed.scan = BitsOfBytes(raw_vec)
           /\ unstuffed.scan = out_scan

\* a scan with a 0xFF byte before another byte went through both functions
C8_Witness ==
    /\ pc = "unstuffed"
    /\ \E i \in 1..(Len(raw_vec) - 1) : raw_vec[i] = MarkerPrefix /\ raw_vec[i + 1] = MarkerEOI
    /\ Len(image_data) > Len(raw_vec)
    /\ unstuffed.kind = "Ok"

----------------------------------------------------------------------------
(* encode_step5.rs: QuantizedDu::zigzag and
   decode_step3.rs: ZigzagDu::to_quantized_du *)

\* an index outside the 8x8 array aborts
InGrid(walk) ==
    \A k \in 1..Len(walk) : walk[k][1] \in 0..7 /\ walk[k][2] \in 0..7

\* a mutant: x == 0 is tested before y == 7, and y == 0 before x == 7
zigzag_step_edges_swapped(x, y, phase) ==
    IF phase = 1
    THEN IF x = 0 THEN <<x, y + 1, 2>>
         ELSE IF y = 7 THEN <<x + 1, y, 2>>
         ELSE <<x - 1, y + 1, 1>>
    ELSE IF y = 0 THEN <<x + 1, y, 1>>
         ELSE IF x = 7 THEN <<x, y + 1, 1>>
         ELSE <<x + 1, y - 1, 2>>

\* a mutant: the walk mirrored in the diagonal, down first and then up
zigzag_step_transposed(x, y, phase) ==
    IF phase = 1
    THEN IF x = 7 THEN <<x, y + 1, 2>>
         ELSE IF y = 0 THEN <<x + 1, y, 2>>
         ELSE <<x + 1, y - 1, 1>>
    ELSE IF y = 7 THEN <<x + 1, y, 1>>
         ELSE IF x = 0 THEN <<x, y + 1, 1>>
         ELSE <<x - 1, y + 1, 2>>

\* one pass of an inner loop body of zigzag after the read at (x, y); y == 7
\* is tested before x == 0 and x == 7 before y == 0, for the diagonal
zigzag_step(x, y, phase) ==
    IF phase = 1
    THEN IF y = 7 THEN <<x + 1, y, 2>>
         ELSE IF x = 0 THEN <<x, y + 1, 2>>
         ELSE <<x - 1, y + 1, 1>>
    ELSE IF x = 7 THEN <<x, y + 1, 1>>
         ELSE IF y = 0 THEN <<x + 1, y, 1>>
         ELSE <<x + 1, y - 1, 2>>

\* n passes of the loop bodies from the state s = <<x, y, phase>>: the states
\* in which an element is accessed, the first half and then the second
RECURSIVE zigzag_walk(_, _)
zigzag_walk(s, n) ==
    IF n = 0 THEN <<>>
    ELSE IF n = 1 THEN <<s>>
    ELSE LET left == zigzag_walk(s, n \div 2)
             last == left[Len(left)]
         IN  left \o zigzag_walk(zigzag_step(last[1], last[2], last[3]),
                                 n - n \div 2)

ZigzagOrder == Positions(zigzag_walk(<<0, 0, 1>>, 64))

zigzag(input) ==
    IF ~InGrid(ZigzagOrder) THEN PanicResult
    ELSE [kind |-> "Ok",
          du |-> [k \in 1..Len(ZigzagOrder) |->
                     input[ZigzagOrder[k][1]][ZigzagOrder[k][2]]]]

\* one pass of an inner loop body of to_quantized_du after the write at (x, y)
to_quantized_du_step(x, y, phase) ==
    IF phase = 1
    THEN IF y = 7 THEN <<x + 1, y, 2>>
         ELSE IF x = 0 THEN <<x, y + 1, 2>>
         ELSE <<x - 1, y + 1, 1>>
    ELSE IF x = 7 THEN <<x, y + 1, 1>>
         ELSE IF y = 0 THEN <<x + 1, y, 1>>
         ELSE <<x + 1, y - 1, 2>>

\* n passes of the loop bodies from the state s = <<x, y, phase>>: the states
\* in which an element is accessed, the first half and then the second
RECURSIVE to_quantized_du_walk(_, _)
to_quantized_du_walk(s, n) ==
    IF n = 0 THEN <<>>
    ELSE IF n = 1 THEN <<s>>
    ELSE LET left == to_quantized_du_walk(s, n \div 2)
             last == left[Len(left)]
         IN  left \o to_quantized_du_walk(to_quantized_du_step(last[1], last[2], last[3]),
                                 n - n \div 2)

UnzigzagOrder == Positions(to_quantized_du_walk(<<0, 0, 1>>, 64))

to_quantized_du(input) ==
    IF ~InGrid(UnzigzagOrder) THEN PanicResult
    ELSE [kind |-> "Ok", du |-> Scatter(UnzigzagOrder, input)]

\* the matrix whose entry names its own position, and the matrices with one
\* entry at an end of the i16 range or next to 0
IndexMatrix == [x \in 0..7 |-> [y \in 0..7 |-> 8 * x + y]]

Impulse(px, py, v) ==
    [x \in 0..7 |-> [y \in 0..7 |-> IF x = px /\ y = py THEN v ELSE 0]]

(* encode_step5.rs and decode_step3.rs: test_zigzag, DU_TABLE: the entry at
   (x, y) is the place of (x, y) in the zigzag order *)
ZIGZAG_TEST_DU_TABLE ==
    LET rows == <<(<<0, 1, 5, 6, 14, 15, 27, 28>>),
                   <<2, 4, 7, 13, 16, 26, 29, 42>>,
                   <<3, 8, 12, 17, 25, 30, 41, 43>>,
                   <<9, 11, 18, 24, 31, 40, 44, 53>>,
                   <<10, 19, 23, 32, 39, 45, 52, 54>>,
                   <<20, 22, 33, 38, 46, 51, 55, 60>>,
                   <<21, 34, 37, 47, 50, 56, 59, 61>>,
                   <<35, 36, 48, 49, 57, 58, 62, 63>>>>
    IN [x \in 0..7 |-> [y \in 0..7 |-> rows[x + 1][y + 1]]]

(* test_zigzag, ZIGZAG_DU_TABLE *)
ZIGZAG_DU_TABLE == [k \in 1..64 |-> k - 1]

ZigInputs ==
    {IndexMatrix, ZIGZAG_TEST_DU_TABLE} \cup
    {Impulse(px, py, v) : px \in 0..7, py \in 0..7, v \in {-32768, -1, 1, 32767}}

ZigInit ==
    /\ quantized_du \in ZigInputs
    /\ zigzag_du = [kind |-> "none"]
    /\ restored_du = [kind |-> "none"]

Zigzag ==
    /\ pc = "zigzag"
    /\ zigzag_du' = zigzag(quantized_du)
    /\ pc' = IF zigzag_du'.kind = "Ok" THEN "to_quantized_du" ELSE "aborted"
    /\ UNCHANGED <<quantized_du, restored_du, decVars, stuffVars, huffVars, laterVars>>

ToQuantizedDu ==
    /\ pc = "to_quantized_du"
    /\ restored_du' = to_quantized_du(zigzag_du.du)
    /\ pc' = IF restored_du'.kind = "Ok" THEN "restored" ELSE "aborted"
    /\ UNCHANGED <<quantized_du, zigzag_du, decVars, stuffVars, huffVars, laterVars>>

InitZigzag ==
    pc = "zigzag" /\ ZigInit /\ DecIdle /\ StuffIdle /\ HuffIdle /\ LaterIdle

NextZigzag ==
    \/ Zigzag
    \/ ToQuantizedDu

SpecZigzag == InitZigzag /\ [][NextZigzag]_vars

Grid == (0..7) \X (0..7)

\* C9: to_quantized_du gives back the matrix that zigzag was given; both
\* traversals stay on the 8x8 grid (neither call aborts) and visit each of
\* its 64 positions exactly once.
C9_ZigzagRoundTrip ==
    /\ pc # "aborted"
    /\ pc \in {"to_quantized_du", "restored"} =>
           /\ Len(zigzag_du.du) = 64
           /\ Len(ZigzagOrder) = 64 /\ Range(ZigzagOrder) = Grid
    /\ pc = "restored" =>
           /\ restored_du.du = quantized_du
           /\ Len(UnzigzagOrder) = 64 /\ Range(UnzigzagOrder) = Grid

\* a matrix with 64 different entries made the round trip
C9_Witness ==
    /\ pc = "restored"
    /\ quantized_du = IndexMatrix
    /\ zigzag_du.du[3] = 8 /\ zigzag_du.du[64] = 63
    /\ restored_du.kind = "Ok"

----------------------------------------------------------------------------
(* encode_step6.rs: JpegHuffmanTable::generate_bits on its own *)

\* up to MaxCount codewords of each of the MaxCodeLen shortest lengths, or of
\* each of the MaxCodeLen longest; some of the former are overfull
CodeLengthInputs ==
    {[i \in 1..16 |-> IF i <= MaxCodeLen THEN f[i] ELSE 0] :
        f \in [1..MaxCodeLen -> 0..MaxCount]}
    \cup
    {[i \in 1..16 |-> IF i > 16 - MaxCodeLen THEN f[i - (16 - MaxCodeLen)] ELSE 0] :
        f \in [1..MaxCodeLen -> 0..MaxCount]}

HuffInit ==
    /\ codes \in CodeLengthInputs
    /\ bits = <<>>

GenerateBits ==
    /\ pc = "generate_bits"
    /\ bits' = generate_bits(codes)
    /\ pc' = "generated"
    /\ UNCHANGED <<codes, decVars, stuffVars, zigVars, laterVars>>

InitHuffman ==
    pc = "generate_bits" /\ HuffInit /\ DecIdle /\ StuffIdle /\ ZigIdle /\ LaterIdle

NextHuffman == GenerateBits

SpecHuffman == InitHuffman /\ [][NextHuffman]_vars

\* the code lengths describe a tree that is not overfull: sum of
\* codes[L] / 2^L at most 1, scaled by 2^16
KraftValid(cs) ==
    SumSeq([i \in 1..Len(cs) |-> cs[i] * Pow2(16 - i)]) <= Pow2(16)

IsPrefix(a, b) == Len(a) <= Len(b) /\ SubSeq(b, 1, Len(a)) = a

\* C10: for valid code lengths the codewords of generate_bits are prefix
\* free, come in order of non-decreasing length, and ascend strictly in
\* value among the codewords of one length.
C10_CanonicalCodes ==
    (pc = "generated" /\ KraftValid(codes)) =>
        /\ Len(bits) = SumSeq(codes)
        /\ \A i, j \in 1..Len(bits) :
               /\ i # j => ~IsPrefix(bits[i], bits[j])
               /\ i < j => Len(bits[i]) <= Len(bits[j])
               /\ (i < j /\ Len(bits[i]) = Len(bits[j])) =>
                      BitsValue(bits[i]) < BitsValue(bits[j])

\* a full tree with codewords of three lengths was generated
C10_Witness ==
    /\ pc = "generated"
    /\ codes[1] = 1 /\ codes[2] = 1 /\ codes[3] = 2
    /\ bits = <<(<<0>>), <<1, 0>>, <<1, 1, 0>>, <<1, 1, 1>>>>

----------------------------------------------------------------------------
(* encode_step6.rs: the default tables, entropy_encode_category and the
   encoders; decode_step2.rs: entropy_decode_value on what they wrote *)

\* the lines of LUMINANCE_DC and CHROMA_DC: <<symbol, length>>
LUMINANCE_DC ==
    <<(<<0, 2>>), <<1, 3>>, <<2, 3>>, <<3, 3>>, <<4, 3>>, <<5, 3>>, <<6, 4>>,
      <<7, 5>>, <<8, 6>>, <<9, 7>>, <<10, 8>>, <<11, 9>>>>

CHROMA_DC ==
    <<(<<0, 2>>), <<1, 2>>, <<2, 2>>, <<3, 3>>, <<4, 4>>, <<5, 5>>, <<6, 6>>,
      <<7, 7>>, <<8, 8>>, <<9, 9>>, <<10, 10>>, <<11, 11>>>>

\* the lines of LUMINANCE_AC and CHROMA_AC
LUMINANCE_AC ==
    <<(<<0, 4>>), <<1, 2>>, <<2, 2>>, <<3, 3>>, <<4, 4>>, <<5, 5>>, <<6, 7>>,
      <<7, 8>>, <<8, 10>>, <<9, 16>>, <<10, 16>>, <<17, 4>>, <<18, 5>>,
      <<19, 7>>, <<20, 9>>, <<21, 11>>, <<22, 16>>, <<23, 16>>, <<24, 16>>,
      <<25, 16>>, <<26, 16>>, <<33, 5>>, <<34, 8>>, <<35, 10>>, <<36, 12>>,
      <<37, 16>>, <<38, 16>>, <<39, 16>>, <<40, 16>>, <<41, 16>>, <<42, 16>>,
      <<49, 6>>, <<50, 9>>, <<51, 12>>, <<52, 16>>, <<53, 16>>, <<54, 16>>,
      <<55, 16>>, <<56, 16>>, <<57, 16>>, <<58, 16>>, <<65, 6>>, <<66, 10>>,
      <<67, 16>>, <<68, 16>>, <<69, 16>>, <<70, 16>>, <<71, 16>>, <<72, 16>>,
      <<73, 16>>, <<74, 16>>, <<81, 7>>, <<82, 11>>, <<83, 16>>, <<84, 16>>,
      <<85, 16>>, <<86, 16>>, <<87, 16>>, <<88, 16>>, <<89, 16>>, <<90, 16>>,
      <<97, 7>>, <<98, 12>>, <<99, 16>>, <<100, 16>>, <<101, 16>>,
      <<102, 16>>, <<103, 16>>, <<104, 16>>, <<105, 16>>, <<106, 16>>,
      <<113, 8>>, <<114, 12>>, <<115, 16>>, <<116, 16>>, <<117, 16>>,
      <<118, 16>>, <<119, 16>>, <<120, 16>>, <<121, 16>>, <<122, 16>>,
      <<129, 9>>, <<130, 15>>, <<131, 16>>, <<132, 16>>, <<133, 16>>,
      <<134, 16>>, <<135, 16>>, <<136, 16>>, <<137, 16>>, <<138, 16>>,
      <<145, 9>>, <<146, 16>>, <<147, 16>>, <<148, 16>>, <<149, 16>>,
      <<150, 16>>, <<151, 16>>, <<152, 16>>, <<153, 16>>, <<154, 16>>,
      <<161, 9>>, <<162, 16>>, <<163, 16>>, <<164, 16>>, <<165, 16>>,
      <<166, 16>>, <<167, 16>>, <<168, 16>>, <<169, 16>>, <<170, 16>>,
      <<177, 10>>, <<178, 16>>, <<179, 16>>, <<180, 16>>, <<181, 16>>,
      <<182, 16>>, <<183, 16>>, <<184, 16>>, <<185, 16>>, <<186, 16>>,
      <<193, 10>>, <<194, 16>>, <<195, 16>>, <<196, 16>>, <<197, 16>>,
      <<198, 16>>, <<199, 16>>, <<200, 16>>, <<201, 16>>, <<202, 16>>,
      <<209, 11>>, <<210, 16>>, <<211, 16>>, <<212, 16>>, <<213, 16>>,
      <<214, 16>>, <<215, 16>>, <<216, 16>>, <<217, 16>>, <<218, 16>>,
      <<225, 16>>, <<226, 16>>, <<227, 16>>, <<228, 16>>, <<229, 16>>,
      <<230, 16>>, <<231, 16>>, <<232, 16>>, <<233, 16>>, <<234, 16>>,
      <<240, 11>>, <<241, 16>>, <<242, 16>>, <<243, 16>>, <<244, 16>>,
      <<245, 16>>, <<246, 16>>, <<247, 16>>, <<248, 16>>, <<249, 16>>,
      <<250, 16>>>>

CHROMA_AC ==
    <<(<<0, 2>>), <<1, 2>>, <<2, 3>>, <<3, 4>>, <<4, 5>>, <<5, 5>>, <<6, 6>>,
      <<7, 7>>, <<8, 9>>, <<9, 10>>, <<10, 12>>, <<17, 4>>, <<18, 6>>,
      <<19, 8>>, <<20, 9>>, <<21, 11>>, <<22, 12>>, <<23, 16>>, <<24, 16>>,
      <<25, 16>>, <<26, 16>>, <<33, 5>>, <<34, 8>>, <<35, 10>>, <<36, 12>>,
      <<37, 15>>, <<38, 16>>, <<39, 16>>, <<40, 16>>, <<41, 16>>, <<42, 16>>,
      <<49, 5>>, <<50, 8>>, <<51, 10>>, <<52, 12>>, <<53, 16>>, <<54, 16>>,
      <<55, 16>>, <<56, 16>>, <<57, 16>>, <<58, 16>>, <<65, 6>>, <<66, 9>>,
      <<67, 16>>, <<68, 16>>, <<69, 16>>, <<70, 16>>, <<71, 16>>, <<72, 16>>,
      <<73, 16>>, <<74, 16>>, <<81, 6>>, <<82, 10>>, <<83, 16>>, <<84, 16>>,
      <<85, 16>>, <<86, 16>>, <<87, 16>>, <<88, 16>>, <<89, 16>>, <<90, 16>>,
      <<97, 7>>, <<98, 11>>, <<99, 16>>, <<100, 16>>, <<101, 16>>,
      <<102, 16>>, <<103, 16>>, <<104, 16>>, <<105, 16>>, <<106, 16>>,
      <<113, 7>>, <<114, 11>>, <<115, 16>>, <<116, 16>>, <<117, 16>>,
      <<118, 16>>, <<119, 16>>, <<120, 16>>, <<121, 16>>, <<122, 16>>,
      <<129, 8>>, <<130, 16>>, <<131, 16>>, <<132, 16>>, <<133, 16>>,
      <<134, 16>>, <<135, 16>>, <<136, 16>>, <<137, 16>>, <<138, 16>>,
      <<145, 9>>, <<146, 16>>, <<147, 16>>, <<148, 16>>, <<149, 16>>,
      <<150, 16>>, <<151, 16>>, <<152, 16>>, <<153, 16>>, <<154, 16>>,
      <<161, 9>>, <<162, 16>>, <<163, 16>>, <<164, 16>>, <<165, 16>>,
      <<166, 16>>, <<167, 16>>, <<168, 16>>, <<169, 16>>, <<170, 16>>,
      <<177, 9>>, <<178, 16>>, <<179, 16>>, <<180, 16>>, <<181, 16>>,
      <<182, 16>>, <<183, 16>>, <<184, 16>>, <<185, 16>>, <<186, 16>>,
      <<193, 9>>, <<194, 16>>, <<195, 16>>, <<196, 16>>, <<197, 16>>,
      <<198, 16>>, <<199, 16>>, <<200, 16>>, <<201, 16>>, <<202, 16>>,
      <<209, 11>>, <<210, 16>>, <<211, 16>>, <<212, 16>>, <<213, 16>>,
      <<214, 16>>, <<215, 16>>, <<216, 16>>, <<217, 16>>, <<218, 16>>,
      <<225, 14>>, <<226, 16>>, <<227, 16>>, <<228, 16>>, <<229, 16>>,
      <<230, 16>>, <<231, 16>>, <<232, 16>>, <<233, 16>>, <<234, 16>>,
      <<240, 10>>, <<241, 15>>, <<242, 16>>, <<243, 16>>, <<244, 16>>,
      <<245, 16>>, <<246, 16>>, <<247, 16>>, <<248, 16>>, <<249, 16>>,
      <<250, 16>>>>

\* the symbols of the lines of a length, in the order of the lines
SelectLines(lines, length) ==
    LET kept == SelectSeq(lines, LAMBDA line : line[2] = length)
    IN  [k \in 1..Len(kept) |-> kept[k][1]]

\* a mutant: the second loop stops one length early, the symbols with
\* codewords of 16 bits get no place among the values
generate_huffman_table_short(content) ==
    [codes |-> [i \in 1..16 |->
                   Cardinality({k \in 1..Len(content) : content[k][2] = i})],
     values |-> Flatten([i \in 1..15 |-> SelectLines(content, i)])]

\* generate_huffman_table: codes[length - 1] counts the lines of a length;
\* values are the symbols by length, then by line
generate_huffman_table(content) ==
    [codes |-> [i \in 1..16 |->
                   Cardinality({k \in 1..Len(content) : content[k][2] = i})],
     values |-> Flatten([i \in 1..16 |-> SelectLines(content, i)])]

DEFAULT_LUMINANCE_DC_HUFFMAN_TABLE == generate_huffman_table(LUMINANCE_DC)
DEFAULT_CHROMA_DC_HUFFMAN_TABLE == generate_huffman_table(CHROMA_DC)
DEFAULT_LUMINANCE_AC_HUFFMAN_TABLE == generate_huffman_table(LUMINANCE_AC)
DEFAULT_CHROMA_AC_HUFFMAN_TABLE == generate_huffman_table(CHROMA_AC)

\* JpegHuffmanTable::to_cached of a table
Cached(t) == to_cached(t.codes, t.values).table

\* a table with a codeword for each of the categories 0..15
AllCategoriesTable ==
    [codes |-> [i \in 1..16 |-> IF i = 4 THEN 16 ELSE 0],
     values |-> [i \in 1..16 |-> i - 1]]

\* a mutant: the position of the first one bit, not the count of bits
get_category_first_one(abs_value) ==
    IF abs_value = 0 THEN 0
    ELSE (CHOOSE c \in 1..16 : Pow2(c - 1) <= abs_value /\ abs_value < Pow2(c)) - 1

\* get_category: the number of bits of abs_value up to its first one bit
get_category(abs_value) ==
    IF abs_value = 0 THEN 0
    ELSE CHOOSE c \in 1..16 : Pow2(c - 1) <= abs_value /\ abs_value < Pow2(c)

\* value.abs() as u16: abs of i16::MIN aborts in a build with overflow
\* checks and stays i16::MIN, 32768 as u16, in one without
AbsU16(value) ==
    IF value = -32768 THEN {PanicResult, [kind |-> "Ok", value |-> 32768]}
    ELSE {[kind |-> "Ok", value |-> IF value < 0 THEN -value ELSE value]}

\* (zrl << 4) | category on u8; category has bit 4 set only when it is 16
SymbolOf(zrl, category) ==
    LET high == (zrl * 16) % 256 IN
    IF category < 16 THEN high + category
    ELSE IF (zrl % 2) = 1 THEN high
    ELSE high + 16

(* entropy_encode_category; zrl is zrl.unwrap_or(0).  get(&symbol).unwrap()
   aborts for a symbol the table does not have. *)
entropy_encode_category(huffman_table, value, zrl) ==
    { IF abs.kind = "Panic" THEN PanicResult
      ELSE LET abs_value == abs.value
               category == get_category(abs_value)
               symbol == SymbolOf(zrl, category)
               abs_bits == MsbBits(abs_value, category)
           IN IF symbol \notin DOMAIN huffman_table THEN PanicResult
              ELSE [kind |-> "Ok",
                    bits |-> huffman_table[symbol] \o
                        (IF category = 0 THEN <<>>
                         ELSE IF value > 0 THEN abs_bits
                         ELSE [k \in 1..Len(abs_bits) |-> 1 - abs_bits[k]])]
      : abs \in AbsU16(value) }

\* the values at the edges of each category, and i16::MIN
VliInputs ==
    {0, -32768} \cup
    UNION {{m, -m, m + 1, -(m + 1), 2 * m - 1, -(2 * m - 1)} :
              m \in {Pow2(c - 1) : c \in 2..15}}
    \cup {1, -1}

InitVli ==
    /\ pc = "entropy_encode_category"
    /\ enc_table \in {Cached(DEFAULT_LUMINANCE_DC_HUFFMAN_TABLE),
                      Cached(DEFAULT_CHROMA_DC_HUFFMAN_TABLE),
                      Cached(AllCategoriesTable)}
    /\ enc_value \in VliInputs
    /\ enc_bits = [kind |-> "none"]
    /\ dec_value = [kind |-> "none"]
    /\ EarlierIdle /\ DcIdle /\ FileIdle /\ AcIdle /\ RestIdle

EntropyEncodeCategory ==
    /\ pc = "entropy_encode_category"
    /\ enc_bits' \in entropy_encode_category(enc_table, enc_value, 0)
    /\ pc' = IF enc_bits'.kind = "Ok" THEN "entropy_decode_value" ELSE "aborted"
    /\ UNCHANGED <<enc_table, enc_value, dec_value, earlierVars, dcVars, fileVars, acVars, scanVars, numVars, thirdVars>>

\* the reader is past the Huffman prefix and knows the category it stands for
EntropyDecodeValue ==
    /\ pc = "entropy_decode_value"
    /\ LET category == CHOOSE s \in DOMAIN enc_table :
                           StartsWithAt(enc_bits.bits, 0, enc_table[s])
       IN dec_value' = [category |-> category] @@
              entropy_decode_value(enc_bits.bits, Len(enc_table[category]), category)
    /\ pc' = "value_decoded"
    /\ UNCHANGED <<enc_table, enc_value, enc_bits, earlierVars, dcVars, fileVars, acVars, scanVars, numVars, thirdVars>>

NextVli ==
    \/ EntropyEncodeCategory
    \/ EntropyDecodeValue

SpecVli == InitVli /\ [][NextVli]_vars

InVliRange(v) == -32767 <= v /\ v <= 32767

\* C11: for -32767 <= v <= 32767 the value bits written after the Huffman
\* prefix, read back with the category of v, give v and end the bits; the
\* category is 0 only for v = 0, and then there are no value bits; with a
\* codeword for every category the encoder always returns.
C11_VliRoundTrip ==
    /\ (pc = "value_decoded" /\ InVliRange(enc_value)) =>
           /\ dec_value.kind = "Ok"
           /\ dec_value.value = enc_value
           /\ dec_value.offset = Len(enc_bits.bits)
           /\ dec_value.category = 0 <=> enc_value = 0
           /\ Len(enc_bits.bits) = Len(enc_table[dec_value.category]) + dec_value.category
    /\ (pc = "aborted" /\ InVliRange(enc_value)) => 15 \notin DOMAIN enc_table

\* a negative value of the largest category made the round trip
C11_Witness ==
    /\ pc = "value_decoded"
    /\ enc_value = -32767
    /\ dec_value.category = 15
    /\ dec_value.value = -32767

----------------------------------------------------------------------------
(* encode_step6.rs: DcEncoder::next, and decode_step2.rs: DcDecoder::decode
   on the bits it returned *)

\* value - self.pred on i16 aborts on overflow in a build with overflow
\* checks and wraps in one without
DcDiff(value, pred) ==
    IF value - pred = WrapI16(value - pred)
    THEN {[kind |-> "Ok", diff |-> value - pred]}
    ELSE {PanicResult, [kind |-> "Ok", diff |-> WrapI16(value - pred)]}

\* a mutant: the prediction is not moved to the value
DcEncoder_next_keeps_pred(pred, huffman_table, value) ==
    UNION {
        IF d.kind # "Ok" THEN {PanicResult}
        ELSE { IF r.kind # "Ok" THEN PanicResult
               ELSE [kind |-> "Ok", bits |-> r.bits, diff |-> d.diff, pred |-> pred]
               : r \in entropy_encode_category(huffman_table, d.diff, 0) }
        : d \in DcDiff(value, pred) }

DcEncoder_next(pred, huffman_table, value) ==
    UNION {
        IF d.kind # "Ok" THEN {PanicResult}
        ELSE { IF r.kind # "Ok" THEN PanicResult
               ELSE [kind |-> "Ok", bits |-> r.bits, diff |-> d.diff, pred |-> value]
               : r \in entropy_encode_category(huffman_table, d.diff, 0) }
        : d \in DcDiff(value, pred) }

DcInputValues == {-32768, -20000, -1, 0, 1, 2047, 2048, 20000, 32767}

InitDc ==
    /\ pc = "DcEncoder_next"
    /\ dc_table \in {Cached(DEFAULT_LUMINANCE_DC_HUFFMAN_TABLE),
                     Cached(AllCategoriesTable)}
    /\ dc_values \in SeqsUpTo(DcInputValues, MaxDcLen)
    /\ dc_pred = 0
    /\ dc_diffs = <<>>
    /\ dc_bits = <<>>
    /\ dc_sum = 0
    /\ dc_offset = 0
    /\ dc_decoded = <<>>
    /\ EarlierIdle /\ VliIdle /\ FileIdle /\ AcIdle /\ RestIdle

\* one call of DcEncoder::next, with the next value
DcEncoderNext ==
    /\ pc = "DcEncoder_next"
    /\ Len(dc_diffs) < Len(dc_values)
    /\ \E r \in DcEncoder_next(dc_pred, dc_table, dc_values[Len(dc_diffs) + 1]) :
           IF r.kind = "Ok"
           THEN /\ dc_pred' = r.pred
                /\ dc_diffs' = Append(dc_diffs, r.diff)
                /\ dc_bits' = dc_bits \o r.bits
                /\ pc' = pc
           ELSE /\ pc' = "aborted"
                /\ UNCHANGED <<dc_pred, dc_diffs, dc_bits>>
    /\ UNCHANGED <<dc_table, dc_values, dc_sum, dc_offset, dc_decoded,
                   earlierVars, vliVars, fileVars, acVars, scanVars, numVars, thirdVars>>

\* every value was encoded: the bits go to a new DcDecoder
DcEncoderDone ==
    /\ pc = "DcEncoder_next"
    /\ Len(dc_diffs) = Len(dc_values)
    /\ pc' = "DcDecoder_decode"
    /\ UNCHANGED <<dcVars, earlierVars, vliVars, fileVars, acVars, scanVars, numVars, thirdVars>>

\* one call of DcDecoder::decode
DcDecoderDecode ==
    /\ pc = "DcDecoder_decode"
    /\ Len(dc_decoded) < Len(dc_values)
    /\ \E r \in DcDecoder_decode(dc_bits, dc_offset, dc_sum, dc_table) :
           IF r.kind = "Ok"
           THEN /\ dc_sum' = r.sum
                /\ dc_offset' = r.offset
                /\ dc_decoded' = Append(dc_decoded, r.sum)
                /\ pc' = pc
           ELSE /\ pc' = IF r.kind = "Panic" THEN "aborted" ELSE "error"
                /\ UNCHANGED <<dc_sum, dc_offset, dc_decoded>>
    /\ UNCHANGED <<dc_table, dc_values, dc_pred, dc_diffs, dc_bits,
                   earlierVars, vliVars, fileVars, acVars, scanVars, numVars, thirdVars>>

NextDc ==
    \/ DcEncoderNext
    \/ DcEncoderDone
    \/ DcDecoderDecode

SpecDc == InitDc /\ [][NextDc]_vars

\* C12: for every sequence of i16 DC values the encoder encodes d_0,
\* d_1 - d_0, ... (and so returns from every call), the decoder returns
\* d_0, d_1, ... and its sum is the sum of the differences it has decoded.
C12_DcDifferentialLaw ==
    /\ pc \notin {"aborted", "error"}
    /\ \A k \in 1..Len(dc_diffs) :
           dc_diffs[k] = dc_values[k] - (IF k = 1 THEN 0 ELSE dc_values[k - 1])
    /\ \A k \in 1..Len(dc_decoded) : dc_decoded[k] = dc_values[k]
    /\ dc_sum = SumSeq(SubSeq(dc_diffs, 1, Len(dc_decoded)))

----------------------------------------------------------------------------
(* encode_step4.rs: the quantization tables; encode_step7.rs: the segment
   structures, their serialization and encode_step7 *)

Matrix(rows) == [x \in 0..7 |-> [y \in 0..7 |-> rows[x + 1][y + 1]]]

LUMINANCE_QUANTIZATION_TABLE ==
    Matrix(<<(<<16, 11, 10, 16, 24, 40, 51, 61>>),
             <<12, 12, 14, 19, 26, 58, 60, 55>>,
             <<14, 13, 16, 24, 40, 57, 69, 56>>,
             <<14, 17, 22, 29, 51, 87, 80, 62>>,
             <<18, 22, 37, 56, 68, 109, 103, 77>>,
             <<24, 35, 55, 64, 81, 104, 113, 92>>,
             <<49, 64, 78, 87, 103, 121, 120, 101>>,
             <<72, 92, 95, 98, 112, 100, 103, 99>>>>)

CHROMINANCE_QUANTIZATION_TABLE ==
    Matrix(<<(<<17, 18, 24, 47, 99, 99, 99, 99>>),
             <<18, 21, 26, 66, 99, 99, 99, 99>>,
             <<24, 26, 56, 99, 99, 99, 99, 99>>,
             <<47, 66, 99, 99, 99, 99, 99, 99>>,
             <<99, 99, 99, 99, 99, 99, 99, 99>>,
             <<99, 99, 99, 99, 99, 99, 99, 99>>,
             <<99, 99, 99, 99, 99, 99, 99, 99>>,
             <<99, 99, 99, 99, 99, 99, 99, 99>>>>)

APP0_default ==
    [length |-> 16, identifier |-> <<74, 70, 73, 70, 0>>, major_version |-> 1,
     minor_version |-> 1, units |-> 0, x_density |-> 1, y_density |-> 1,
     x_thumbnail |-> 0, y_thumbnail |-> 0]

DQT_default ==
    [length |-> 131, is_precision_16 |-> TRUE, id |-> 0,
     table |-> [k \in 1..64 |-> 0]]

SOF0_default ==
    [length |-> 17, precision |-> 8, lines |-> 0, samples_per_line |-> 0,
     components |->
         <<[id |-> 1, horizontal_sampling_factor |-> 2,
            vertical_sampling_factor |-> 1, quantization_id |-> 0],
           [id |-> 2, horizontal_sampling_factor |-> 1,
            vertical_sampling_factor |-> 1, quantization_id |-> 1],
           [id |-> 3, horizontal_sampling_factor |-> 1,
            vertical_sampling_factor |-> 1, quantization_id |-> 1]>>]

\* a mutant: the ids count the tables of each class, DC 0 / AC 0 for Y and
\* DC 1 / AC 1 for Cb and Cr
SOS_default_ids_per_class ==
    [length |-> 12,
     components |->
         <<[id |-> 1, dc_huffman_id |-> 0, ac_huffman_id |-> 0],
           [id |-> 2, dc_huffman_id |-> 1, ac_huffman_id |-> 1],
           [id |-> 3, dc_huffman_id |-> 1, ac_huffman_id |-> 1]>>,
     ss |-> 0, se |-> 63, ah |-> 0, al |-> 0]

SOS_default ==
    [length |-> 12,
     components |->
         <<[id |-> 1, dc_huffman_id |-> 0, ac_huffman_id |-> 1],
           [id |-> 2, dc_huffman_id |-> 2, ac_huffman_id |-> 3],
           [id |-> 3, dc_huffman_id |-> 2, ac_huffman_id |-> 3]>>,
     ss |-> 0, se |-> 63, ah |-> 0, al |-> 0]

\* write_u16 with Endian::BigEndian
WriteU16(v) == <<v \div 256, v % 256>>

\* high << 4 | low on u8, for a low below 16
Nibbles(high, low) == ((high * 16) % 256) + low

SOI_to_vec == <<MarkerPrefix, MarkerSOI>>

\* APP0 with the 16-bit fields written low byte first
APP0_to_vec_little_endian(app0) ==
    <<MarkerPrefix, MarkerAPP0, app0.length % 256, app0.length \div 256>>
    \o app0.identifier
    \o <<app0.major_version, app0.minor_version, app0.units>>
    \o <<app0.x_density % 256, app0.x_density \div 256>>
    \o <<app0.y_density % 256, app0.y_density \div 256>>
    \o <<app0.x_thumbnail, app0.y_thumbnail>>

APP0_to_vec(app0) ==
    <<MarkerPrefix, MarkerAPP0>> \o WriteU16(app0.length) \o app0.identifier
    \o <<app0.major_version, app0.minor_version, app0.units>>
    \o WriteU16(app0.x_density) \o WriteU16(app0.y_density)
    \o <<app0.x_thumbnail, app0.y_thumbnail>>

DQT_to_vec(dqt) ==
    <<MarkerPrefix, MarkerDQT>> \o WriteU16(dqt.length)
    \o <<Nibbles(IF dqt.is_precision_16 THEN 1 ELSE 0, dqt.id)>>
    \o Flatten([k \in 1..Len(dqt.table) |-> WriteU16(dqt.table[k])])

SOF0_to_vec(s) ==
    <<MarkerPrefix, MarkerSOF0>> \o WriteU16(s.length) \o <<s.precision>>
    \o WriteU16(s.lines) \o WriteU16(s.samples_per_line)
    \o <<Len(s.components) % 256>>
    \o Flatten([k \in 1..Len(s.components) |->
           <<s.components[k].id,
             Nibbles(s.components[k].horizontal_sampling_factor,
                     s.components[k].vertical_sampling_factor),
             s.components[k].quantization_id>>])

DHT_to_vec(dht) ==
    <<MarkerPrefix, MarkerDHT>> \o WriteU16(dht.length)
    \o <<Nibbles(dht.table_class, dht.id)>> \o dht.codes \o dht.values

SOS_to_vec(sos) ==
    <<MarkerPrefix, MarkerSOS>> \o WriteU16(sos.length)
    \o <<Len(sos.components) % 256>>
    \o Flatten([k \in 1..Len(sos.components) |->
           <<sos.components[k].id,
             Nibbles(sos.components[k].dc_huffman_id,
                     sos.components[k].ac_huffman_id)>>])
    \o <<sos.ss, sos.se, Nibbles(sos.ah, sos.al)>>

EOI_to_vec == <<MarkerPrefix, MarkerEOI>>

\* a mutant: the walk goes down first, the order of the transposed table
to_dqt_step_transposed(x, y, phase) ==
    IF phase = 1
    THEN IF x = 7 THEN <<x, y + 1, 2>>
         ELSE IF y = 0 THEN <<x + 1, y, 2>>
         ELSE <<x + 1, y - 1, 1>>
    ELSE IF y = 7 THEN <<x + 1, y, 1>>
         ELSE IF x = 0 THEN <<x, y + 1, 1>>
         ELSE <<x - 1, y + 1, 2>>

\* one pass of an inner loop body of to_dqt after the read at (x, y)
to_dqt_step(x, y, phase) ==
    IF phase = 1
    THEN IF y = 7 THEN <<x + 1, y, 2>>
         ELSE IF x = 0 THEN <<x, y + 1, 2>>
         ELSE <<x - 1, y + 1, 1>>
    ELSE IF x = 7 THEN <<x, y + 1, 1>>
         ELSE IF y = 0 THEN <<x + 1, y, 1>>
         ELSE <<x + 1, y - 1, 2>>

RECURSIVE to_dqt_walk(_, _)
to_dqt_walk(s, n) ==
    IF n = 0 THEN <<>>
    ELSE IF n = 1 THEN <<s>>
    ELSE LET left == to_dqt_walk(s, n \div 2)
             last == left[Len(left)]
         IN  left \o to_dqt_walk(to_dqt_step(last[1], last[2], last[3]),
                                 n - n \div 2)

ToDqtOrder == Positions(to_dqt_walk(<<0, 0, 1>>, 64))

\* QuantizationTable::to_dqt
to_dqt(q, id) ==
    [DQT_default EXCEPT
        !.id = id,
        !.table = [k \in 1..64 |-> q[ToDqtOrder[k][1]][ToDqtOrder[k][2]]]]

\* a mutant: the length leaves out the two bytes of the length field
to_dht_length_of_body(t, id, table_class) ==
    [length |-> (1 + 16 + Len(t.values)) % 65536,
     table_class |-> table_class, id |-> id,
     codes |-> t.codes, values |-> t.values]

\* JpegHuffmanTable::to_dht
to_dht(t, id, table_class) ==
    [length |-> (2 + 1 + 16 + Len(t.values)) % 65536,
     table_class |-> table_class, id |-> id,
     codes |-> t.codes, values |-> t.values]

\* a mutant: the chrominance table comes first
QUANTIZATION_TABLES_swapped ==
    <<CHROMINANCE_QUANTIZATION_TABLE, LUMINANCE_QUANTIZATION_TABLE>>

QUANTIZATION_TABLES ==
    <<LUMINANCE_QUANTIZATION_TABLE, CHROMINANCE_QUANTIZATION_TABLE>>

DefaultHuffmanTables ==
    <<DEFAULT_LUMINANCE_DC_HUFFMAN_TABLE, DEFAULT_LUMINANCE_AC_HUFFMAN_TABLE,
      DEFAULT_CHROMA_DC_HUFFMAN_TABLE, DEFAULT_CHROMA_AC_HUFFMAN_TABLE>>

\* the sizes and scans given to encode_step7; 65541 does not fit a u16
FileSizes == {1, 16, 65541}

FileScans ==
    {<<>>, <<1, 0, 1>>, [k \in 1..8 |-> 1], [k \in 1..MaxFileScan |-> 1],
     [k \in 1..MaxFileScan |-> k % 2]}

InitFile ==
    /\ pc = "encode_step7"
    /\ out_data \in [original_width : FileSizes, original_height : FileSizes,
                 scan : FileScans]
    /\ dqts = <<>>
    /\ out_sof0 = <<>>
    /\ dhts = <<>>
    /\ file_image_data = <<>>
    /\ output = <<>>
    /\ written = <<>>
    /\ file_result = "none"
    /\ EarlierIdle /\ VliIdle /\ DcIdle /\ AcIdle /\ RestIdle

FileRest == <<earlierVars, vliVars, dcVars, acVars, scanVars, numVars, thirdVars>>

\* encode_step7 up to the creation of output: the segments are built
BuildSegments ==
    /\ pc = "encode_step7"
    /\ dqts' = [i \in 1..Len(QUANTIZATION_TABLES) |->
                   to_dqt(QUANTIZATION_TABLES[i], i - 1)]
    /\ out_sof0' = [SOF0_default EXCEPT
                   !.lines = out_data.original_height % 65536,
                   !.samples_per_line = out_data.original_width % 65536]
    /\ dhts' = [i \in 1..Len(DefaultHuffmanTables) |->
                   to_dht(DefaultHuffmanTables[i], i - 1,
                          IF (i - 1) % 2 = 0 THEN 0 ELSE 1)]
    /\ file_image_data' = to_image_data(out_data.scan)
    /\ pc' = "write soi"
    /\ UNCHANGED <<out_data, output, written, file_result, FileRest>>

\* output.write_bytes(bytes), recorded under the name of the segment
WriteBytes(name, bytes) ==
    /\ output' = output \o bytes
    /\ written' = Append(written, <<name, Len(output)>>)

WriteSOI ==
    /\ pc = "write soi"
    /\ WriteBytes("SOI", SOI_to_vec)
    /\ pc' = "write app0"
    /\ UNCHANGED <<out_data, FileData, file_result, FileRest>>

WriteAPP0 ==
    /\ pc = "write app0"
    /\ WriteBytes("APP0", APP0_to_vec(APP0_default))
    /\ pc' = "write dqt"
    /\ UNCHANGED <<out_data, FileData, file_result, FileRest>>

\* the segments written so far
Names(w) == [k \in 1..Len(w) |-> w[k][1]]

\* for dqt in &dqts: the next one
WriteDQT ==
    /\ pc = "write dqt"
    /\ Count(Names(written), "DQT") < Len(dqts)
    /\ WriteBytes("DQT", DQT_to_vec(dqts[Count(Names(written), "DQT") + 1]))
    /\ pc' = pc
    /\ UNCHANGED <<out_data, FileData, file_result, FileRest>>

\* the loop over dqts is left
WriteSOF0 ==
    /\ pc = "write dqt"
    /\ Count(Names(written), "DQT") = Len(dqts)
    /\ WriteBytes("SOF0", SOF0_to_vec(out_sof0))
    /\ pc' = "write dht"
    /\ UNCHANGED <<out_data, FileData, file_result, FileRest>>

\* for dht in &dhts: the next one
WriteDHT ==
    /\ pc = "write dht"
    /\ Count(Names(written), "DHT") < Len(dhts)
    /\ WriteBytes("DHT", DHT_to_vec(dhts[Count(Names(written), "DHT") + 1]))
    /\ pc' = pc
    /\ UNCHANGED <<out_data, FileData, file_result, FileRest>>

\* the loop over dhts is left
WriteSOS ==
    /\ pc = "write dht"
    /\ Count(Names(written), "DHT") = Len(dhts)
    /\ WriteBytes("SOS", SOS_to_vec(SOS_default))
    /\ pc' = "write image data"
    /\ UNCHANGED <<out_data, FileData, file_result, FileRest>>

WriteImageData ==
    /\ pc = "write image data"
    /\ WriteBytes("ImageData", file_image_data)
    /\ pc' = "write eoi"
    /\ UNCHANGED <<out_data, FileData, file_result, FileRest>>

WriteEOI ==
    /\ pc = "write eoi"
    /\ WriteBytes("EOI", EOI_to_vec)
    /\ pc' = "fs write"
    /\ UNCHANGED <<out_data, FileData, file_result, FileRest>>

\* std::fs::write(out_path, output.into_vec()) succeeds or fails
FsWrite ==
    /\ pc = "fs write"
    /\ file_result' \in {"Ok", "Err"}
    /\ pc' = "returned"
    /\ UNCHANGED <<out_data, FileData, output, written, FileRest>>

NextFile ==
    \/ BuildSegments
    \/ WriteSOI
    \/ WriteAPP0
    \/ WriteDQT
    \/ WriteSOF0
    \/ WriteDHT
    \/ WriteSOS
    \/ WriteImageData
    \/ WriteEOI
    \/ FsWrite

SpecFile == InitFile /\ [][NextFile]_vars

\* the file as a reader finds it: from offset p, n times a marker and the
\* block that read_block returns after it
RECURSIVE ReadSegments(_, _, _)
ReadSegments(b, p, n) ==
    IF n = 0 \/ p + 2 > Len(b) THEN <<>>
    ELSE LET rb == read_block(b, p + 2) IN
         IF rb.kind # "Ok" THEN <<>>
         ELSE <<[prefix |-> b[p + 1], marker |-> b[p + 2], start |-> p,
                 block |-> rb.block, rpos |-> rb.rpos]>>
              \o ReadSegments(b, rb.rpos, n - 1)

\* the 9 segments with a length field that follow SOI
OutputSegments == ReadSegments(output, 2, 9)

ExpectedOrder ==
    <<"SOI", "APP0", "DQT", "DQT", "SOF0", "DHT", "DHT", "DHT", "DHT", "SOS",
      "ImageData", "EOI">>

AllWritten == pc \in {"fs write", "returned"}

\* C13: encode_step7 writes SOI, APP0, the luminance DQT with id 0, the
\* chrominance DQT with id 1, SOF0, the DHT of luminance DC, luminance AC,
\* chrominance DC and chrominance AC, SOS, the stuffed scan and EOI, in this
\* order, each once, nothing before SOI and nothing after EOI.
C13_SegmentOrder ==
    /\ Len(written) <= Len(ExpectedOrder)
    /\ Names(written) = SubSeq(ExpectedOrder, 1, Len(written))
    /\ AllWritten =>
        LET segs == OutputSegments IN
        /\ Names(written) = ExpectedOrder
        /\ SubSeq(output, 1, 2) = <<MarkerPrefix, MarkerSOI>>
        /\ Len(segs) = 9
        /\ \A k \in 1..9 : segs[k].prefix = MarkerPrefix
        /\ [k \in 1..9 |-> segs[k].marker] =
               <<MarkerAPP0, MarkerDQT, MarkerDQT, MarkerSOF0, MarkerDHT,
                 MarkerDHT, MarkerDHT, MarkerDHT, MarkerSOS>>
        /\ parse_dqt(segs[2].block).id = 0
        /\ parse_dqt(segs[2].block).table = LUMINANCE_QUANTIZATION_TABLE
        /\ parse_dqt(segs[3].block).id = 1
        /\ parse_dqt(segs[3].block).table = CHROMINANCE_QUANTIZATION_TABLE
        /\ parse_sof0(segs[4].block).kind = "Ok"
        /\ \A k \in 1..4 :
               parse_dht(segs[4 + k].block).table = Cached(DefaultHuffmanTables[k])
        /\ SubSeq(output, segs[9].rpos + 1, Len(output)) =
               to_image_data(out_data.scan) \o <<MarkerPrefix, MarkerEOI>>

\* the whole file of a scan with a stuffed byte has been written
C13_Witness ==
    /\ pc = "returned"
    /\ Len(out_data.scan) = 8
    /\ Len(written) = 12
    /\ SubSeq(output, Len(output) - 3, Len(output)) =
           <<MarkerPrefix, 0, MarkerPrefix, MarkerEOI>>

\* class and id of the k-th DHT segment of the file
DhtClassId(k) ==
    LET b == OutputSegments[4 + k].block IN <<b[1] \div 16, b[1] % 16>>

\* C14: the four DHT segments carry (class, id) = (0, 0), (1, 0), (0, 1)
\* and (1, 1), in this order.
C14_DhtClassAndId ==
    AllWritten =>
        [k \in 1..4 |-> DhtClassId(k)] = <<(<<0, 0>>), <<1, 0>>, <<0, 1>>, <<1, 1>>>>

\* where the k-th write ends
WrittenEnd(k) == IF k < Len(written) THEN written[k + 1][2] ELSE Len(output)

\* C15: for APP0, both DQT, SOF0, the four DHT and SOS the length field is
\* the number of bytes of the segment less the 2 of the marker, so that
\* read_block after the marker ends where the segment ends: at the marker of
\* the next segment, and at the first byte of the scan after SOS.
C15_LengthFields ==
    \A k \in 2..Len(written) :
        written[k][1] \in {"APP0", "DQT", "SOF0", "DHT", "SOS"} =>
            LET start == written[k][2]
                rb == read_block(output, start + 2)
            IN /\ U16(output[start + 3], output[start + 4]) = WrittenEnd(k) - start - 2
               /\ rb.kind = "Ok"
               /\ rb.rpos = WrittenEnd(k)
               /\ (k < Len(written) /\ written[k][1] # "SOS") =>
                      /\ output[rb.rpos + 1] = MarkerPrefix
                      /\ output[rb.rpos + 2] \in {MarkerDQT, MarkerSOF0, MarkerDHT, MarkerSOS}

\* all nine segments with a length were written and read back
C15_Witness ==
    /\ AllWritten
    /\ Len(OutputSegments) = 9
    /\ OutputSegments[9].marker = MarkerSOS
    /\ OutputSegments[9].rpos = written[11][2]
    /\ Len(to_image_data(out_data.scan)) = 2

\* the last packed byte, before stuffing: a 0 after 0xFF is the stuffed one
LastPackedByte(bytes) ==
    IF Len(bytes) >= 2 /\ bytes[Len(bytes) - 1] = MarkerPrefix THEN MarkerPrefix
    ELSE bytes[Len(bytes)]

\* C16: when the number of bits of the scan is not a multiple of 8, the
\* places of the last scan byte after the last bit of the scan hold 1-bits.
C16_PadBitsAreOnes ==
    (pc # "encode_step7" /\ Len(out_data.scan) % 8 # 0) =>
        LET unused == 8 - (Len(out_data.scan) % 8) IN
        LastPackedByte(file_image_data) % Pow2(unused) = Pow2(unused) - 1

----------------------------------------------------------------------------
(* decode_step2.rs: AcDecoder::decode on the bits of a list of symbols *)

\* <<run, value>>: EOB, ZRL, a coefficient at once, and coefficients after
\* runs of 14 and of 15 zeros
AcSymbolInputs == {<<0, 0>>, <<15, 0>>, <<0, 1>>, <<14, -1>>, <<15, 2>>}

\* the cached table of the AcDecoder of the luminance component
LuminanceAcTable == Cached(DEFAULT_LUMINANCE_AC_HUFFMAN_TABLE)

\* the bits of the symbols, as entropy_encode_category writes them
SymbolBits(table, symbols) ==
    Flatten([k \in 1..Len(symbols) |->
        (CHOOSE r \in entropy_encode_category(table, symbols[k][2], symbols[k][1]) :
            r.kind = "Ok").bits])

InitAc ==
    /\ pc = "AcDecoder_decode"
    /\ ac_symbols \in SeqsUpTo(AcSymbolInputs, MaxAcSymbols)
    /\ ac_scan = SymbolBits(LuminanceAcTable, ac_symbols)
    /\ ac_result = [kind |-> "none"]
    /\ EarlierIdle /\ VliIdle /\ DcIdle /\ FileIdle /\ RestIdle

\* AcDecoder::decode on a DU whose DC coefficient is in place
AcDecoderDecode ==
    /\ pc = "AcDecoder_decode"
    /\ ac_result' \in AcDecoder_decode(ac_scan, 0, [k \in 1..64 |-> 0],
                          LuminanceAcTable)
    /\ pc' = "ac_decoded"
    /\ UNCHANGED <<ac_symbols, ac_scan, earlierVars, vliVars, dcVars, fileVars, scanVars, numVars, thirdVars>>

NextAc == AcDecoderDecode

SpecAc == InitAc /\ [][NextAc]_vars

\* what the symbols ask for, from AC position idx on: "Ok" when they fill
\* the positions up to 63 exactly or end the block, "Past" when a run or a
\* coefficient would lie past position 63, "Short" when they end too early
RECURSIVE Filling(_, _)
Filling(symbols, idx) ==
    IF idx = 64 THEN "Ok"
    ELSE IF symbols = <<>> THEN "Short"
    ELSE IF Head(symbols) = <<0, 0>> THEN "Ok"
    ELSE IF idx + Head(symbols)[1] > 63 THEN "Past"
    ELSE Filling(Tail(symbols), idx + Head(symbols)[1] + 1)

\* the coefficient the symbols put at AC position p, 0 if none
RECURSIVE Placed(_, _, _)
Placed(symbols, idx, p) ==
    IF symbols = <<>> \/ idx > p \/ Head(symbols) = <<0, 0>> THEN 0
    ELSE IF idx + Head(symbols)[1] = p THEN Head(symbols)[2]
    ELSE Placed(Tail(symbols), idx + Head(symbols)[1] + 1, p)

\* C17: AcDecoder::decode returns an error whenever the symbols would put a
\* run or a coefficient past AC position 63, and Ok only when positions
\* 1..63 are filled exactly, by coefficients, runs or an EOB; the DU keeps
\* its 64 entries, each coefficient at its position.
C17_AcOverflowIsError ==
    pc = "ac_decoded" =>
        /\ Filling(ac_symbols, 1) = "Past" => ac_result.kind = "Err"
        /\ ac_result.kind = "Ok" => Filling(ac_symbols, 1) = "Ok"
        /\ Filling(ac_symbols, 1) = "Ok" =>
               /\ ac_result.kind = "Ok"
               /\ Len(ac_result.du) = 64
               /\ \A p \in 1..63 : ac_result.du[p + 1] = Placed(ac_symbols, 1, p)

\* three ZRL and a coefficient after 15 more zeros: it would be at position 64
C17_Witness ==
    /\ pc = "ac_decoded"
    /\ ac_symbols = <<(<<15, 0>>), <<15, 0>>, <<15, 0>>, <<15, 2>>>>
    /\ ac_result.kind = "Err"

----------------------------------------------------------------------------
(* f64 arithmetic as the processor does it: a number is <<sign, e, m>>, its
   value sign * m * 2^e, where m is an integer of 53 bits given as four
   limbs of 14 bits, the lowest first; zero is <<0, 0, <<0, 0, 0, 0>>>>.
   The sign of a zero is not kept: no result here depends on it.  Infinite
   values, NaN and subnormal numbers are not reached by the values of the
   transforms. *)

\* the limbs are the digits to the base 2^14
Limb == Pow2(14)

F64Zero == <<0, 0, <<0, 0, 0, 0>>>>

\* the limb of weight Limb^i of the integer X, 0 past its ends
LimbOf(X, i) == IF i >= 0 /\ i < Len(X) THEN X[i + 1] ELSE 0

Four(L(_)) == <<L(0), L(1), L(2), L(3)>>

EightLimbs(L(_)) == <<L(0), L(1), L(2), L(3), L(4), L(5), L(6), L(7)>>

\* the number of bits of a limb
BitLen14(v) ==
    IF v >= 128
    THEN IF v >= 2048
         THEN IF v >= 8192 THEN 14 ELSE IF v >= 4096 THEN 13 ELSE 12
         ELSE IF v >= 1024 THEN 11 ELSE IF v >= 512 THEN 10
              ELSE IF v >= 256 THEN 9 ELSE 8
    ELSE IF v >= 8
         THEN IF v >= 64 THEN 7 ELSE IF v >= 32 THEN 6 ELSE IF v >= 16 THEN 5 ELSE 4
         ELSE IF v >= 4 THEN 3 ELSE IF v >= 2 THEN 2 ELSE v

\* the number of bits of an integer of eight limbs
BigBits(X) ==
    IF X[8] # 0 THEN 98 + BitLen14(X[8])
    ELSE IF X[7] # 0 THEN 84 + BitLen14(X[7])
    ELSE IF X[6] # 0 THEN 70 + BitLen14(X[6])
    ELSE IF X[5] # 0 THEN 56 + BitLen14(X[5])
    ELSE IF X[4] # 0 THEN 42 + BitLen14(X[4])
    ELSE IF X[3] # 0 THEN 28 + BitLen14(X[3])
    ELSE IF X[2] # 0 THEN 14 + BitLen14(X[2])
    ELSE BitLen14(X[1])

\* limb i of X shifted right by k bits
ShrLimb(X, k, i) ==
    LET q == k \div 14
        r == k % 14
    IN (LimbOf(X, q + i) \div Pow2(r)) + (LimbOf(X, q + i + 1) % Pow2(r)) * Pow2(14 - r)

\* limb i of X shifted left by k bits
ShlLimb(X, k, i) ==
    LET q == k \div 14
        r == k % 14
    IN (LimbOf(X, i - q) % Pow2(14 - r)) * Pow2(r) + (LimbOf(X, i - q - 1) \div Pow2(14 - r))

\* bit k of X
BigBit(X, k) == (LimbOf(X, k \div 14) \div Pow2(k % 14)) % 2

\* a bit below bit k of X is set
BigLowBits(X, k) ==
    \/ LimbOf(X, k \div 14) % Pow2(k % 14) # 0
    \/ \E i \in 1..(k \div 14) : X[i] # 0

\* m + 1 for a mantissa below 2^53 - 1
MantissaNext(m) ==
    IF m[1] + 1 < Limb THEN <<m[1] + 1, m[2], m[3], m[4]>>
    ELSE IF m[2] + 1 < Limb THEN <<0, m[2] + 1, m[3], m[4]>>
    ELSE IF m[3] + 1 < Limb THEN <<0, 0, m[3] + 1, m[4]>>
    ELSE <<0, 0, 0, m[4] + 1>>

\* sign * X * 2^e for an integer X of eight limbs, rounded to 53 bits, a
\* tie going to the even mantissa
F64Round(sign, X, e) ==
    LET nbits == BigBits(X) IN
    IF nbits = 0 \/ sign = 0 THEN F64Zero
    ELSE IF nbits <= 53
    THEN LET ShlX(i) == ShlLimb(X, 53 - nbits, i)
         IN <<sign, e - (53 - nbits), Four(ShlX)>>
    ELSE LET k == nbits - 53
             ShrX(i) == ShrLimb(X, k, i)
             m == Four(ShrX)
             up == BigBit(X, k - 1) = 1 /\ (BigLowBits(X, k - 1) \/ m[1] % 2 = 1)
         IN IF ~up THEN <<sign, e + k, m>>
            ELSE IF m = <<Limb - 1, Limb - 1, Limb - 1, 2047>>
            THEN <<sign, e + k + 1, <<0, 0, 0, 1024>>>>
            ELSE <<sign, e + k, MantissaNext(m)>>

\* x * y
F64Mul(x, y) ==
    IF x[1] = 0 \/ y[1] = 0 THEN F64Zero
    ELSE LET a == x[3]
             b == y[3]
             t0 == a[1] * b[1]
             t1 == a[1] * b[2] + a[2] * b[1] + t0 \div Limb
             t2 == a[1] * b[3] + a[2] * b[2] + a[3] * b[1] + t1 \div Limb
             t3 == a[1] * b[4] + a[2] * b[3] + a[3] * b[2] + a[4] * b[1] + t2 \div Limb
             t4 == a[2] * b[4] + a[3] * b[3] + a[4] * b[2] + t3 \div Limb
             t5 == a[3] * b[4] + a[4] * b[3] + t4 \div Limb
             t6 == a[4] * b[4] + t5 \div Limb
         IN F64Round(x[1] * y[1],
                     <<t0 % Limb, t1 % Limb, t2 % Limb, t3 % Limb,
                       t4 % Limb, t5 % Limb, t6 % Limb, t6 \div Limb>>,
                     x[2] + y[2])

\* X + Y for integers of eight limbs whose sum has eight
BigAdd(X, Y) ==
    LET t1 == X[1] + Y[1]
        t2 == X[2] + Y[2] + t1 \div Limb
        t3 == X[3] + Y[3] + t2 \div Limb
        t4 == X[4] + Y[4] + t3 \div Limb
        t5 == X[5] + Y[5] + t4 \div Limb
        t6 == X[6] + Y[6] + t5 \div Limb
        t7 == X[7] + Y[7] + t6 \div Limb
        t8 == X[8] + Y[8] + t7 \div Limb
    IN <<t1 % Limb, t2 % Limb, t3 % Limb, t4 % Limb,
         t5 % Limb, t6 % Limb, t7 % Limb, t8 % Limb>>

\* X - Y modulo Limb^8, and then whether X < Y
BigSub(X, Y) ==
    LET t1 == X[1] - Y[1] + Limb
        t2 == X[2] - Y[2] + Limb - (1 - t1 \div Limb)
        t3 == X[3] - Y[3] + Limb - (1 - t2 \div Limb)
        t4 == X[4] - Y[4] + Limb - (1 - t3 \div Limb)
        t5 == X[5] - Y[5] + Limb - (1 - t4 \div Limb)
        t6 == X[6] - Y[6] + Limb - (1 - t5 \div Limb)
        t7 == X[7] - Y[7] + Limb - (1 - t6 \div Limb)
        t8 == X[8] - Y[8] + Limb - (1 - t7 \div Limb)
    IN <<t1 % Limb, t2 % Limb, t3 % Limb, t4 % Limb,
         t5 % Limb, t6 % Limb, t7 % Limb, t8 % Limb, t8 < Limb>>

\* x + y, for x of the exponent that is not the smaller
F64AddOrdered(x, y) ==
    LET d == x[2] - y[2] IN
    IF d > 55 THEN x
    ELSE LET ShlX(i) == ShlLimb(x[3], d, i)
             X == EightLimbs(ShlX)
             Y == y[3] \o <<0, 0, 0, 0>>
         IN IF x[1] = y[1] THEN F64Round(x[1], BigAdd(X, Y), y[2])
            ELSE LET D == BigSub(X, Y)
                 IN IF D[9]
                    THEN F64Round(y[1], SubSeq(BigSub(Y, X), 1, 8), y[2])
                    ELSE F64Round(x[1], SubSeq(D, 1, 8), y[2])

\* x + y
F64Add(x, y) ==
    IF x[1] = 0 THEN y
    ELSE IF y[1] = 0 THEN x
    ELSE IF x[2] >= y[2] THEN F64AddOrdered(x, y) ELSE F64AddOrdered(y, x)

\* n as f64, for an integer n
F64FromInt(n) ==
    LET a == IF n < 0 THEN -n ELSE n
    IN F64Round(IF n < 0 THEN -1 ELSE IF n > 0 THEN 1 ELSE 0,
                <<a % Limb, (a \div Limb) % Limb, a \div (Limb * Limb), 0, 0, 0, 0, 0>>,
                0)

\* x / (q as f64), for an integer q in 1..65535
F64DivInt(x, q) ==
    IF x[1] = 0 THEN F64Zero
    ELSE LET m == x[3]
             \* m * 2^28 divided by q, limb by limb from the top
             r6 == m[4]
             r5 == (r6 % q) * Limb + m[3]
             r4 == (r5 % q) * Limb + m[2]
             r3 == (r4 % q) * Limb + m[1]
             r2 == (r3 % q) * Limb
             r1 == (r2 % q) * Limb
             Q == <<r1 \div q, r2 \div q, r3 \div q, r4 \div q, r5 \div q, r6 \div q, 0, 0>>
             ShlQ(i) == ShlLimb(Q, 1, i) + (IF i = 0 /\ r1 % q # 0 THEN 1 ELSE 0)
         IN F64Round(x[1], EightLimbs(ShlQ), x[2] - 29)

\* x.round() as an integer type of the range lo..hi inside -2^30..2^30:
\* the nearest integer, a half going away from zero, saturating
F64RoundAs(x, lo, hi) ==
    IF x[1] = 0 \/ x[2] < -53 THEN 0
    ELSE IF x[2] > -23 THEN IF x[1] > 0 THEN hi ELSE lo
    ELSE LET k == -x[2]
             ShrX(i) == ShrLimb(x[3], k, i)
             n == ShrX(0) + ShrX(1) * Limb + ShrX(2) * Limb * Limb
                      + BigBit(x[3], k - 1)
         IN IF x[1] > 0 THEN (IF n > hi THEN hi ELSE n)
            ELSE (IF -n < lo THEN lo ELSE -n)

\* (k as f64 * PI / 16.0).cos() for k in 0..105, the values of cos of libm:
\* COS_F64[k + 1] is the cosine of k pi/16 as the program has it
COS_F64 ==
    <<<<1, -52, <<0, 0, 0, 1024>>>>,
      <<1, -53, <<7344, 16349, 10620, 2008>>>>,
      <<1, -53, <<3398, 15562, 1724, 1892>>>>,
      <<1, -53, <<8611, 9274, 13922, 1702>>>>,
      <<1, -53, <<15309, 6652, 2534, 1448>>>>,
      <<1, -53, <<10441, 9913, 13235, 1137>>>>,
      <<1, -54, <<10596, 6842, 7722, 1567>>>>,
      <<1, -55, <<9741, 12710, 2947, 1598>>>>,
      <<1, -106, <<7175, 3153, 8803, 1129>>>>,
      <<-1, -55, <<9736, 12710, 2947, 1598>>>>,
      <<-1, -54, <<10594, 6842, 7722, 1567>>>>,
      <<-1, -53, <<10438, 9913, 13235, 1137>>>>,
      <<-1, -53, <<15308, 6652, 2534, 1448>>>>,
      <<-1, -53, <<8612, 9274, 13922, 1702>>>>,
      <<-1, -53, <<3398, 15562, 1724, 1892>>>>,
      <<-1, -53, <<7344, 16349, 10620, 2008>>>>,
      <<-1, -52, <<0, 0, 0, 1024>>>>,
      <<-1, -53, <<7344, 16349, 10620, 2008>>>>,
      <<-1, -53, <<3399, 15562, 1724, 1892>>>>,
      <<-1, -53, <<8613, 9274, 13922, 1702>>>>,
      <<-1, -53, <<15310, 6652, 2534, 1448>>>>,
      <<-1, -53, <<10440, 9913, 13235, 1137>>>>,
      <<-1, -54, <<10605, 6842, 7722, 1567>>>>,
      <<-1, -55, <<9753, 12710, 2947, 1598>>>>,
      <<-1, -105, <<2570, 12922, 5012, 1694>>>>,
      <<1, -55, <<9740, 12710, 2947, 1598>>>>,
      <<1, -54, <<10599, 6842, 7722, 1567>>>>,
      <<1, -53, <<10437, 9913, 13235, 1137>>>>,
      <<1, -53, <<15307, 6652, 2534, 1448>>>>,
      <<1, -53, <<8611, 9274, 13922, 1702>>>>,
      <<1, -53, <<3396, 15562, 1724, 1892>>>>,
      <<1, -53, <<7343, 16349, 10620, 2008>>>>,
      <<1, -52, <<0, 0, 0, 1024>>>>,
      <<1, -53, <<7344, 16349, 10620, 2008>>>>,
      <<1, -53, <<3398, 15562, 1724, 1892>>>>,
      <<1, -53, <<8613, 9274, 13922, 1702>>>>,
      <<1, -53, <<15310, 6652, 2534, 1448>>>>,
      <<1, -53, <<10441, 9913, 13235, 1137>>>>,
      <<1, -54, <<10607, 6842, 7722, 1567>>>>,
      <<1, -55, <<9757, 12710, 2947, 1598>>>>,
      <<1, -104, <<13065, 16229, 15099, 1411>>>>,
      <<-1, -55, <<9704, 12710, 2947, 1598>>>>,
      <<-1, -54, <<10597, 6842, 7722, 1567>>>>,
      <<-1, -53, <<10436, 9913, 13235, 1137>>>>,
      <<-1, -53, <<15301, 6652, 2534, 1448>>>>,
      <<-1, -53, <<8610, 9274, 13922, 1702>>>>,
      <<-1, -53, <<3395, 15562, 1724, 1892>>>>,
      <<-1, -53, <<7345, 16349, 10620, 2008>>>>,
      <<-1, -52, <<0, 0, 0, 1024>>>>,
      <<-1, -53, <<7346, 16349, 10620, 2008>>>>,
      <<-1, -53, <<3398, 15562, 1724, 1892>>>>,
      <<-1, -53, <<8614, 9274, 13922, 1702>>>>,
      <<-1, -53, <<15305, 6652, 2534, 1448>>>>,
      <<-1, -53, <<10442, 9913, 13235, 1137>>>>,
      <<-1, -54, <<10609, 6842, 7722, 1567>>>>,
      <<-1, -55, <<9730, 12710, 2947, 1598>>>>,
      <<-1, -104, <<8460, 9614, 11309, 1976>>>>,
      <<1, -55, <<9700, 12710, 2947, 1598>>>>,
      <<1, -54, <<10595, 6842, 7722, 1567>>>>,
      <<1, -53, <<10435, 9913, 13235, 1137>>>>,
      <<1, -53, <<15300, 6652, 2534, 1448>>>>,
      <<1, -53, <<8610, 9274, 13922, 1702>>>>,
      <<1, -53, <<3395, 15562, 1724, 1892>>>>,
      <<1, -53, <<7344, 16349, 10620, 2008>>>>,
      <<1, -52, <<0, 0, 0, 1024>>>>,
      <<1, -53, <<7346, 16349, 10620, 2008>>>>,
      <<1, -53, <<3398, 15562, 1724, 1892>>>>,
      <<1, -53, <<8615, 9274, 13922, 1702>>>>,
      <<1, -53, <<15306, 6652, 2534, 1448>>>>,
      <<1, -53, <<10443, 9913, 13235, 1137>>>>,
      <<1, -54, <<10611, 6842, 7722, 1567>>>>,
      <<1, -55, <<9734, 12710, 2947, 1598>>>>,
      <<1, -103, <<10120, 9691, 11951, 1270>>>>,
      <<-1, -55, <<9695, 12710, 2947, 1598>>>>,
      <<-1, -54, <<10593, 6842, 7722, 1567>>>>,
      <<-1, -53, <<10434, 9913, 13235, 1137>>>>,
      <<-1, -53, <<15299, 6652, 2534, 1448>>>>,
      <<-1, -53, <<8609, 9274, 13922, 1702>>>>,
      <<-1, -53, <<3395, 15562, 1724, 1892>>>>,
      <<-1, -53, <<7344, 16349, 10620, 2008>>>>,
      <<-1, -52, <<0, 0, 0, 1024>>>>,
      <<-1, -53, <<7346, 16349, 10620, 2008>>>>,
      <<-1, -53, <<3405, 15562, 1724, 1892>>>>,
      <<-1, -53, <<8606, 9274, 13922, 1702>>>>,
      <<-1, -53, <<15307, 6652, 2534, 1448>>>>,
      <<-1, -53, <<10444, 9913, 13235, 1137>>>>,
      <<-1, -54, <<10613, 6842, 7722, 1567>>>>,
      <<-1, -55, <<9801, 12710, 2947, 1598>>>>,
      <<-1, -101, <<16290, 1595, 4562, 1412>>>>,
      <<1, -55, <<9754, 12710, 2947, 1598>>>>,
      <<1, -54, <<10591, 6842, 7722, 1567>>>>,
      <<1, -53, <<10434, 9913, 13235, 1137>>>>,
      <<1, -53, <<15298, 6652, 2534, 1448>>>>,
      <<1, -53, <<8600, 9274, 13922, 1702>>>>,
      <<1, -53, <<3400, 15562, 1724, 1892>>>>,
      <<1, -53, <<7344, 16349, 10620, 2008>>>>,
      <<1, -52, <<0, 0, 0, 1024>>>>,
      <<1, -53, <<7347, 16349, 10620, 2008>>>>,
      <<1, -53, <<3405, 15562, 1724, 1892>>>>,
      <<1, -53, <<8607, 9274, 13922, 1702>>>>,
      <<1, -53, <<15308, 6652, 2534, 1448>>>>,
      <<1, -53, <<10445, 9913, 13235, 1137>>>>,
      <<1, -54, <<10615, 6842, 7722, 1567>>>>,
      <<1, -55, <<9806, 12710, 2947, 1598>>>>,
      <<-1, -102, <<13626, 6653, 4111, 1130>>>>,
      <<-1, -55, <<9750, 12710, 2947, 1598>>>>>>

\* (1.0 / 8.0).sqrt()
first_factor == <<1, -54, <<15309, 6652, 2534, 1448>>>>

\* (2.0 / 8.0).sqrt(), which is 0.5
others_factor == <<1, -53, <<0, 0, 0, 1024>>>>

----------------------------------------------------------------------------
(* encode_step3.rs: dct; encode_step4.rs: DctDu::quantize; decode_step3.rs:
   DctDu::idct; the three steps of the encoder between the MCUs and the
   zigzag MCUs.  Every sum and product is the f64 operation of the code,
   in the order of the code. *)

\* the eight values f[0], ..., f[7], each computed once
Eight(f) ==
    ((0 :> f[0] @@ 1 :> f[1]) @@ (2 :> f[2] @@ 3 :> f[3]))
      @@ ((4 :> f[4] @@ 5 :> f[5]) @@ (6 :> f[6] @@ 7 :> f[7]))

\* the value of a let binding: the one element of a set of one
Only(S) == CHOOSE v \in S : TRUE

\* let mut sum = 0.0; for i in 0..8 { sum += T(i) }: s1 .. s7 are the
\* accumulator after each +=
Sum8(T(_)) ==
    Only({F64Add(s7, T(7)) : s7 \in {F64Add(s6, T(6)) : s6 \in
         {F64Add(s5, T(5)) : s5 \in {F64Add(s4, T(4)) : s4 \in
         {F64Add(s3, T(3)) : s3 \in {F64Add(s2, T(2)) : s2 \in
         {F64Add(s1, T(1)) : s1 \in {F64Add(F64Zero, T(0))}}}}}}}})

\* (((2 * y + 1) * v) as f64 * PI / (2 * N) as f64).cos()
CosOf(y, v) == COS_F64[(2 * y + 1) * v + 1]

\* a mutant: first_factor is used for every index
FactorOf_first_only(index) == first_factor

\* if index == 0 { first_factor } else { others_factor }
FactorOf(index) == IF index = 0 THEN first_factor ELSE others_factor

\* the first loop nest of dct
dct_one(du) ==
    Eight([u \in 0..7 |-> Eight([v \in 0..7 |->
        LET Term(y) == F64Mul(F64FromInt(du[u][y]), CosOf(y, v))
        IN F64Mul(Sum8(Term), FactorOf(v))])])

\* the second loop nest of dct
dct_ret(one) ==
    Eight([u \in 0..7 |-> Eight([v \in 0..7 |->
        LET Term(x) == F64Mul(one[x][v], CosOf(x, u))
        IN F64Mul(Sum8(Term), FactorOf(u))])])

\* dct: the DctDu of a Du, 64 f64 values
dct(du) == Only({dct_ret(one) : one \in {dct_one(du)}})

\* the first loop nest of idct
idct_one(input) ==
    Eight([x \in 0..7 |-> Eight([y \in 0..7 |->
        LET Term(u) == F64Mul(F64Mul(FactorOf(u), input[u][y]), CosOf(x, u))
        IN Sum8(Term)])])

\* the second loop nest of idct
idct_ret(one) ==
    Eight([x \in 0..7 |-> Eight([y \in 0..7 |->
        LET Term(v) == F64Mul(F64Mul(FactorOf(v), one[x][v]), CosOf(y, v))
        IN Sum8(Term)])])

\* idct: ret.map(|inner| inner.map(|it| it.round() as i8))
idct_round(ret) ==
    Eight([x \in 0..7 |-> Eight([y \in 0..7 |->
        F64RoundAs(ret[x][y], -128, 127)])])

\* idct: the Du of a DctDu
idct(input) ==
    Only({idct_round(ret) : ret \in {idct_ret(one) : one \in {idct_one(input)}}})

\* the DctDu whose entries are the given integers
DctDuOf(ints) ==
    Eight([x \in 0..7 |-> Eight([y \in 0..7 |-> F64FromInt(ints[x][y])])])

(* quantize: (self.0[i][j] / table.0[i][j] as f64).round() as i16; a table
   entry of 0 gives an infinite quotient, or NaN for 0 / 0, which the cast
   turns into 0 *)
quantize(self, table) ==
    Eight([i \in 0..7 |-> Eight([j \in 0..7 |->
        IF table[i][j] = 0
        THEN IF self[i][j][1] > 0 THEN 32767
             ELSE IF self[i][j][1] < 0 THEN -32768 ELSE 0
        ELSE F64RoundAs(F64DivInt(self[i][j], table[i][j]), -32768, 32767)])])

\* the four DUs of an MCU
McuFields == {"y0", "y1", "cb", "cr"}

McuOf(f) == [y0 |-> f["y0"], y1 |-> f["y1"], cb |-> f["cb"], cr |-> f["cr"]]

\* encode_step3: the dct of the four DUs of every MCU, each computed once
encode_step3(mcu_collection) ==
    SubSeq([m \in 1..Len(mcu_collection) |->
               McuOf([field \in McuFields |-> dct(mcu_collection[m][field])])],
           1, Len(mcu_collection))

\* encode_step4: Y0 and Y1 with the luminance table, Cb and Cr with the
\* chrominance table
encode_step4(dct_mcus) ==
    SubSeq([m \in 1..Len(dct_mcus) |->
               McuOf([field \in McuFields |->
                   quantize(dct_mcus[m][field],
                            IF field \in {"y0", "y1"}
                            THEN LUMINANCE_QUANTIZATION_TABLE
                            ELSE CHROMINANCE_QUANTIZATION_TABLE)])],
           1, Len(dct_mcus))

\* the zigzag results of encode_step5: an Err of any of them is unwrapped
ZigzagResults(zz) ==
    IF \E m \in 1..Len(zz) : \E field \in McuFields : zz[m][field].kind # "Ok"
    THEN PanicResult
    ELSE [kind |-> "Ok",
          zigzag_mcus |-> [m \in 1..Len(zz) |->
              McuOf([field \in McuFields |-> zz[m][field].du])]]

\* encode_step5: the zigzag of the four DUs of every MCU
encode_step5(quantized_mcus) ==
    ZigzagResults(
        SubSeq([m \in 1..Len(quantized_mcus) |->
                   McuOf([field \in McuFields |-> zigzag(quantized_mcus[m][field])])],
               1, Len(quantized_mcus)))

----------------------------------------------------------------------------
(* encode_step2.rs, encode_step6.rs: from the planes to the scan, and
   decode_step2 on the scan read back from the file *)

\* MyYuvImage::padded_width and padded_height: the width rounded up to a
\* multiple of 16, the height to a multiple of 8
padded_width(original_width) == ((original_width + 15) \div 16) * 16
padded_height(original_height) == ((original_height + 7) \div 8) * 8

\* (0..n).step_by(step)
StepBy(n, step) == [k \in 1..((n + step - 1) \div step) |-> (k - 1) * step]

WrapI8(n) == ((n + 128) % 256) - 128

\* a mutant: the subtraction without the wrap of wrapping_add
ToSigned_no_wrap(byte) == (IF byte >= 128 THEN byte - 256 ELSE byte) - 128

\* (byte as i8).wrapping_add(-128)
ToSigned(byte) == WrapI8((IF byte >= 128 THEN byte - 256 ELSE byte) - 128)

\* encode_step2: an MCU for every 16x8 region of the padded planes, row by
\* row; the planes are sequences, plane[index + 1] is the sample at index
encode_step2(original_width, y_plane, u_plane, v_plane, original_height) ==
    LET pw == padded_width(original_width)
        ph == padded_height(original_height)
        ys == StepBy(ph, 8)
        xs == StepBy(pw, 16)
        Mcu(x, y) ==
            [y0 |-> [row \in 0..7 |-> [col \in 0..7 |->
                        ToSigned(y_plane[(y + row) * pw + (x + col) + 1])]],
             y1 |-> [row \in 0..7 |-> [col \in 0..7 |->
                        ToSigned(y_plane[(y + row) * pw + (x + col + 8) + 1])]],
             cb |-> [row \in 0..7 |-> [col \in 0..7 |->
                        ToSigned(u_plane[(y + row) * (pw \div 2) + (x \div 2 + col) + 1])]],
             cr |-> [row \in 0..7 |-> [col \in 0..7 |->
                        ToSigned(v_plane[(y + row) * (pw \div 2) + (x \div 2 + col) + 1])]]]
    IN Flatten([j \in 1..Len(ys) |-> [i \in 1..Len(xs) |-> Mcu(xs[i], ys[j])]])

\* a mutant: flush(true) returns the EOB whatever the run is
AcEncoder_flush_always_eob(zero_run_length, huffman_table, is_end_of_block) ==
    IF is_end_of_block
    THEN { IF r.kind # "Ok" THEN PanicResult
           ELSE [kind |-> "Ok", bits |-> r.bits, zero_run_length |-> zero_run_length]
           : r \in entropy_encode_category(huffman_table, 0, 0) }
    ELSE IF zero_run_length < 16
    THEN {[kind |-> "Ok", bits |-> <<>>, zero_run_length |-> zero_run_length]}
    ELSE { IF f0.kind # "Ok" THEN PanicResult
           ELSE [kind |-> "Ok",
                 bits |-> Flatten([k \in 1..(zero_run_length \div 16) |-> f0.bits]),
                 zero_run_length |-> zero_run_length % 16]
           : f0 \in entropy_encode_category(huffman_table, 0, 15) }

(* AcEncoder::flush: the EOB when the block ends in zeros, or a ZRL for
   every 16 zeros of the run *)
AcEncoder_flush(zero_run_length, huffman_table, is_end_of_block) ==
    IF is_end_of_block
    THEN IF zero_run_length # 0
         THEN { IF r.kind # "Ok" THEN PanicResult
                ELSE [kind |-> "Ok", bits |-> r.bits, zero_run_length |-> zero_run_length]
                : r \in entropy_encode_category(huffman_table, 0, 0) }
         ELSE {[kind |-> "Ok", bits |-> <<>>, zero_run_length |-> zero_run_length]}
    ELSE IF zero_run_length < 16
    THEN {[kind |-> "Ok", bits |-> <<>>, zero_run_length |-> zero_run_length]}
    ELSE { IF f0.kind # "Ok" THEN PanicResult
           ELSE [kind |-> "Ok",
                 bits |-> Flatten([k \in 1..(zero_run_length \div 16) |-> f0.bits]),
                 zero_run_length |-> zero_run_length % 16]
           : f0 \in entropy_encode_category(huffman_table, 0, 15) }

(* AcEncoder::next *)
AcEncoder_next(zero_run_length, huffman_table, value) ==
    IF value = 0
    THEN {[kind |-> "Ok", bits |-> <<>>, zero_run_length |-> zero_run_length + 1]}
    ELSE UNION {
        IF ret.kind # "Ok" THEN {PanicResult}
        ELSE { IF r.kind # "Ok" THEN PanicResult
               ELSE [kind |-> "Ok", bits |-> ret.bits \o r.bits, zero_run_length |-> 0]
               : r \in entropy_encode_category(huffman_table, value,
                                               ret.zero_run_length) }
        : ret \in AcEncoder_flush(zero_run_length, huffman_table, FALSE) }

\* ac_encoder.next on du[lo..hi] in turn, the two halves one after the other
RECURSIVE AcEncoder_walk(_, _, _, _, _)
AcEncoder_walk(du, lo, hi, zero_run_length, huffman_table) ==
    IF lo > hi THEN {[kind |-> "Ok", bits |-> <<>>, zero_run_length |-> zero_run_length]}
    ELSE IF lo = hi THEN AcEncoder_next(zero_run_length, huffman_table, du[lo])
    ELSE UNION {
        IF l.kind # "Ok" THEN {PanicResult}
        ELSE { IF r.kind # "Ok" THEN PanicResult
               ELSE [kind |-> "Ok", bits |-> l.bits \o r.bits,
                     zero_run_length |-> r.zero_run_length]
               : r \in AcEncoder_walk(du, (lo + hi) \div 2 + 1, hi,
                                      l.zero_run_length, huffman_table) }
        : l \in AcEncoder_walk(du, lo, (lo + hi) \div 2, zero_run_length,
                               huffman_table) }

(* encode_du: the DC coefficient, the 63 AC coefficients, flush(true);
   du[1] is the DC coefficient *)
encode_du(du, pred, dc_huffman_table, ac_huffman_table) ==
    UNION {
        IF dc.kind # "Ok" THEN {PanicResult}
        ELSE UNION {
            IF ac.kind # "Ok" THEN {PanicResult}
            ELSE { IF eob.kind # "Ok" THEN PanicResult
                   ELSE [kind |-> "Ok", pred |-> dc.pred,
                         bits |-> dc.bits \o ac.bits \o eob.bits]
                   : eob \in AcEncoder_flush(ac.zero_run_length, ac_huffman_table, TRUE) }
            : ac \in AcEncoder_walk(du, 2, Len(du), 0, ac_huffman_table) }
        : dc \in DcEncoder_next(pred, dc_huffman_table, du[1]) }

LuminanceDcTable == Cached(DEFAULT_LUMINANCE_DC_HUFFMAN_TABLE)
ChromaDcTable == Cached(DEFAULT_CHROMA_DC_HUFFMAN_TABLE)
ChromaAcTable == Cached(DEFAULT_CHROMA_AC_HUFFMAN_TABLE)

\* a mutant: cb and cr share one DC encoder
DusOf_chroma_shared(zmcus) ==
    Flatten([k \in 1..Len(zmcus) |->
        <<[du |-> zmcus[k].y0, encoder |-> 1], [du |-> zmcus[k].y1, encoder |-> 1],
          [du |-> zmcus[k].cb, encoder |-> 2], [du |-> zmcus[k].cr, encoder |-> 2]>>])

\* the DUs of the MCUs in the order encode_step6 encodes them, each with
\* its DC encoder (1 for Y, 2 for Cb, 3 for Cr)
DusOf(zmcus) ==
    Flatten([k \in 1..Len(zmcus) |->
        <<[du |-> zmcus[k].y0, encoder |-> 1], [du |-> zmcus[k].y1, encoder |-> 1],
          [du |-> zmcus[k].cb, encoder |-> 2], [du |-> zmcus[k].cr, encoder |-> 3]>>])

(* encode_step6: the loop over the MCUs, on the DUs lo..hi of DusOf, the
   two halves one after the other; preds are the predictions of the three
   DC encoders *)
RECURSIVE encode_step6_from(_, _, _, _)
encode_step6_from(dus, lo, hi, preds) ==
    IF lo > hi THEN {[kind |-> "Ok", scan |-> <<>>, preds |-> preds]}
    ELSE IF lo = hi
    THEN { IF r.kind # "Ok" THEN PanicResult
           ELSE [kind |-> "Ok", scan |-> r.bits,
                 preds |-> [preds EXCEPT ![dus[lo].encoder] = r.pred]]
           : r \in encode_du(dus[lo].du, preds[dus[lo].encoder],
                       IF dus[lo].encoder = 1 THEN LuminanceDcTable ELSE ChromaDcTable,
                       IF dus[lo].encoder = 1 THEN LuminanceAcTable ELSE ChromaAcTable) }
    ELSE UNION {
        IF l.kind # "Ok" THEN {PanicResult}
        ELSE { IF r.kind # "Ok" THEN PanicResult
               ELSE [kind |-> "Ok", scan |-> l.scan \o r.scan, preds |-> r.preds]
               : r \in encode_step6_from(dus, (lo + hi) \div 2 + 1, hi, l.preds) }
        : l \in encode_step6_from(dus, lo, (lo + hi) \div 2, preds) }

encode_step6(zmcus) ==
    { IF r.kind # "Ok" THEN PanicResult ELSE [kind |-> "Ok", scan |-> r.scan]
      : r \in encode_step6_from(DusOf(zmcus), 1, Len(DusOf(zmcus)), <<0, 0, 0>>) }

\* the components of the frame encode_step7 writes, with the tables
\* encode_step6 codes them with
Yuv422Components ==
    <<[horizontal_sampling_factor |-> 2, vertical_sampling_factor |-> 1,
       dc_huffman_table |-> LuminanceDcTable, ac_huffman_table |-> LuminanceAcTable],
      [horizontal_sampling_factor |-> 1, vertical_sampling_factor |-> 1,
       dc_huffman_table |-> ChromaDcTable, ac_huffman_table |-> ChromaAcTable],
      [horizontal_sampling_factor |-> 1, vertical_sampling_factor |-> 1,
       dc_huffman_table |-> ChromaDcTable, ac_huffman_table |-> ChromaAcTable]>>

\* a DU with the given coefficients, <<index, value>>, and zeros elsewhere
DuWith(entries) ==
    [k \in 1..64 |->
        IF \E e \in entries : e[1] = k
        THEN (CHOOSE e \in entries : e[1] = k)[2] ELSE 0]

ZeroDu == DuWith({})
\* a coefficient in the last place: three ZRL, and no EOB
LastPlaceDu == DuWith({<<1, 5>>, <<2, -3>>, <<64, 1>>})
MiddleDu == DuWith({<<1, -2>>, <<21, 2>>})

ZigzagMcuInputs ==
    {[y0 |-> ZeroDu, y1 |-> ZeroDu, cb |-> ZeroDu, cr |-> ZeroDu],
     [y0 |-> LastPlaceDu, y1 |-> MiddleDu, cb |-> ZeroDu, cr |-> MiddleDu],
     [y0 |-> MiddleDu, y1 |-> ZeroDu, cb |-> LastPlaceDu, cr |-> LastPlaceDu]}

InitScan ==
    /\ pc = "encode_step2"
    /\ img_width \in {1, 16, MaxImageWidth}
    /\ img_height \in {1, 8, MaxImageHeight}
    /\ img_sample \in {0, 128, 200}
    /\ mcus = <<>>
    /\ zigzag_mcus = <<>>
    /\ enc_scan = [kind |-> "none"]
    /\ read_scan = <<>>
    /\ step2_result = [kind |-> "none"]
    /\ EarlierIdle /\ VliIdle /\ DcIdle /\ FileIdle /\ AcIdle /\ NumIdle /\ ThirdIdle

ScanRest == <<earlierVars, vliVars, dcVars, fileVars, acVars, numVars, thirdVars>>

\* encode_step2 on planes filled with img_sample
EncodeStep2 ==
    /\ pc = "encode_step2"
    /\ LET pw == padded_width(img_width)
           ph == padded_height(img_height)
       IN mcus' = encode_step2(img_width,
                      [k \in 1..(pw * ph) |-> img_sample],
                      [k \in 1..((pw \div 2) * ph) |-> img_sample],
                      [k \in 1..((pw \div 2) * ph) |-> img_sample],
                      img_height)
    /\ pc' = "encode_step3"
    /\ UNCHANGED <<img_width, img_height, img_sample, zigzag_mcus, enc_scan,
                   read_scan, step2_result, ScanRest>>

\* encode_step3, encode_step4 and encode_step5, each on what the step
\* before returned
EncodeSteps3To5 ==
    /\ pc = "encode_step3"
    /\ \E dct_mcus \in {encode_step3(mcus)} :
       \E quantized_mcus \in {encode_step4(dct_mcus)} :
       \E zigzag_mcu_collection \in {encode_step5(quantized_mcus)} :
       IF zigzag_mcu_collection.kind = "Ok"
       THEN /\ zigzag_mcus' = zigzag_mcu_collection.zigzag_mcus
            /\ pc' = "encode_step6"
       ELSE /\ zigzag_mcus' = zigzag_mcus
            /\ pc' = "aborted"
    /\ UNCHANGED <<img_width, img_height, img_sample, mcus, enc_scan,
                   read_scan, step2_result, ScanRest>>

EncodeStep6 ==
    /\ pc = "encode_step6"
    /\ enc_scan' \in encode_step6(zigzag_mcus)
    /\ pc' = IF enc_scan'.kind = "Ok" THEN "encode_step7" ELSE "aborted"
    /\ UNCHANGED <<img_width, img_height, img_sample, mcus, zigzag_mcus,
                   read_scan, step2_result, ScanRest>>

\* encode_step7 writes the scan as image data and EOI; decode_step1 reads
\* the scan back from these bytes
WriteAndReadScan ==
    /\ pc = "encode_step7" /\ enc_scan.kind = "Ok"
    /\ read_scan' = parse_image_data(
                        to_image_data(enc_scan.scan) \o EOI_to_vec, 0).scan
    /\ pc' = "decode_step2"
    /\ UNCHANGED <<img_width, img_height, img_sample, mcus, zigzag_mcus,
                   enc_scan, step2_result, ScanRest>>

DecodeStep2OfScan ==
    /\ pc = "decode_step2"
    /\ step2_result' \in decode_step2(read_scan, Yuv422Components)
    /\ pc' = "decoded"
    /\ UNCHANGED <<img_width, img_height, img_sample, mcus, zigzag_mcus,
                   enc_scan, read_scan, ScanRest>>

NextScan ==
    \/ EncodeStep2
    \/ EncodeSteps3To5
    \/ EncodeStep6
    \/ WriteAndReadScan
    \/ DecodeStep2OfScan

SpecScan == InitScan /\ [][NextScan]_vars

\* mcus_x * mcus_y * (2*1 + 1*1 + 1*1)
ExpectedDus ==
    (padded_width(img_width) \div 16) * (padded_height(img_height) \div 8)
        * SumSeq([c \in 1..Len(Yuv422Components) |->
                     SamplingProduct(Yuv422Components[c])])

\* C18: encode_step2 produces (padded_width/16) * (padded_height/8) MCUs,
\* encode_step6 encodes the four DUs of each of them once, and decode_step2
\* on the scan returns mcus_x * mcus_y * (sum of H*V) DUs.
C18_DuCount ==
    /\ pc \notin {"encode_step2"} /\ mcus # <<>> =>
           Len(mcus) = (padded_width(img_width) \div 16) * (padded_height(img_height) \div 8)
    /\ pc = "decoded" =>
           /\ step2_result.kind = "Ok"
           /\ Len(step2_result.zigzag_dus) = ExpectedDus

\* the same holds where the scan happens to end at a byte boundary, and
\* the DUs are those that were encoded
DuCountWhenByteAligned ==
    (pc = "decoded" /\ Len(enc_scan.scan) % 8 = 0) =>
        /\ step2_result.kind = "Ok"
        /\ step2_result.zigzag_dus =
               [k \in 1..Len(DusOf(zigzag_mcus)) |-> DusOf(zigzag_mcus)[k].du]

----------------------------------------------------------------------------
(* decode_step3.rs: QuantizedDu::to_dct_du; encode_step4.rs: DctDu::quantize *)

\* the tables of decode_step3.rs's test_quantize
QUANTIZED_DU_TABLE ==
    Matrix(<<(<<-26, -3, -6, 2, 2, -1, 0, 0>>),
             <<0, -2, -4, 1, 1, 0, 0, 0>>,
             <<-3, 1, 5, -1, -1, 0, 0, 0>>,
             <<-3, 1, 2, -1, 0, 0, 0, 0>>,
             <<1, 0, 0, 0, 0, 0, 0, 0>>,
             <<0, 0, 0, 0, 0, 0, 0, 0>>,
             <<0, 0, 0, 0, 0, 0, 0, 0>>,
             <<0, 0, 0, 0, 0, 0, 0, 0>>>>)

DCT_DU_TABLE ==
    Matrix(<<(<<-416, -33, -60, 32, 48, -40, 0, 0>>),
             <<0, -24, -56, 19, 26, 0, 0, 0>>,
             <<-42, 13, 80, -24, -40, 0, 0, 0>>,
             <<-42, 17, 44, -29, 0, 0, 0, 0>>,
             <<18, 0, 0, 0, 0, 0, 0, 0>>,
             <<0, 0, 0, 0, 0, 0, 0, 0>>,
             <<0, 0, 0, 0, 0, 0, 0, 0>>,
             <<0, 0, 0, 0, 0, 0, 0, 0>>>>)

\* u16 as i16
AsI16(n) == WrapI16(n)

(* to_dct_du: the products are formed in i16; one that does not fit aborts
   where overflow is checked and wraps where it is not *)
to_dct_du(input, qt) ==
    LET product(x, y) == input[x][y] * AsI16(qt[x][y]) IN
    {[kind |-> "Ok",
      ret |-> [x \in 0..7 |-> [y \in 0..7 |-> WrapI16(product(x, y))]]]}
    \cup (IF \E x \in 0..7, y \in 0..7 : product(x, y) # WrapI16(product(x, y))
          THEN {PanicResult} ELSE {})

\* the matrix with one entry replaced
WithEntry(matrix, at, value) == [matrix EXCEPT ![at[1]][at[2]] = value]

EntryInputs == {<<0, 0>>, <<3, 4>>, <<7, 7>>}
QuantizedInputs == {-32768, -1024, -26, -1, 0, 1, 1023, 2048, 32767}
TableInputs == {1, 16, 99, 255, 32768, 65535}

InitDequant ==
    /\ pc = "to_dct_du"
    /\ \E at \in EntryInputs, q \in QuantizedInputs, t \in TableInputs :
           /\ dq_input = WithEntry(QUANTIZED_DU_TABLE, at, q)
           /\ dq_table = WithEntry(LUMINANCE_QUANTIZATION_TABLE, at, t)
    /\ dct_du = [kind |-> "none"]
    /\ f_input = <<>>
    /\ f_table = <<>>
    /\ quantized = [kind |-> "none"]
    /\ EarlierIdle /\ VliIdle /\ DcIdle /\ FileIdle /\ AcIdle /\ ScanIdle /\ ThirdIdle

NumRest == <<earlierVars, vliVars, dcVars, fileVars, acVars, scanVars, thirdVars>>

ToDctDu ==
    /\ pc = "to_dct_du"
    /\ dct_du' \in to_dct_du(dq_input, dq_table)
    /\ pc' = "dequantized"
    /\ UNCHANGED <<dq_input, dq_table, f_input, f_table, quantized, NumRest>>

NextDequant == ToDctDu

SpecDequant == InitDequant /\ [][NextDequant]_vars

\* C19: to_dct_du returns, for every entry, the exact integer product of
\* the signed 16-bit coefficient and the unsigned 16-bit table entry: no
\* product overflows or wraps.
C19_ExactProduct ==
    pc = "dequantized" =>
        /\ dct_du.kind = "Ok"
        /\ \A x \in 0..7, y \in 0..7 :
               dct_du.ret[x][y] = dq_input[x][y] * dq_table[x][y]

\* the products that fit 16 signed bits, with a table entry below 32768,
\* are exact
ProductExactWhenItFits ==
    (pc = "dequantized" /\ \A x \in 0..7, y \in 0..7 :
            /\ dq_table[x][y] < 32768
            /\ dq_input[x][y] * dq_table[x][y] \in -32768..32767) =>
        /\ dct_du.kind = "Ok"
        /\ \A x \in 0..7, y \in 0..7 :
               dct_du.ret[x][y] = dq_input[x][y] * dq_table[x][y]

\* f64 as i16: saturating
SaturateI16(n) == IF n > 32767 THEN 32767 ELSE IF n < -32768 THEN -32768 ELSE n

CoefficientInputs == {-24, -9, -8, -7, 0, 7, 8, 9, 24, 25, 40, 2000000}
DivisorInputs == {1, 3, 16, 99}

InitQuantize ==
    /\ pc = "quantize"
    /\ \E at \in EntryInputs, f \in CoefficientInputs, t \in DivisorInputs :
           /\ f_input = WithEntry(DCT_DU_TABLE, at, f)
           /\ f_table = WithEntry(LUMINANCE_QUANTIZATION_TABLE, at, t)
    /\ quantized = [kind |-> "none"]
    /\ dq_input = <<>>
    /\ dq_table = <<>>
    /\ dct_du = [kind |-> "none"]
    /\ EarlierIdle /\ VliIdle /\ DcIdle /\ FileIdle /\ AcIdle /\ ScanIdle /\ ThirdIdle

Quantize ==
    /\ pc = "quantize"
    /\ quantized' = [kind |-> "Ok", ret |-> quantize(DctDuOf(f_input), f_table)]
    /\ pc' = "quantized"
    /\ UNCHANGED <<dq_input, dq_table, dct_du, f_input, f_table, NumRest>>

NextQuantize == Quantize

SpecQuantize == InitQuantize /\ [][NextQuantize]_vars

\* the integer nearest to f / q, a half going to the even neighbour
NearestTiesToEven(f, q) ==
    LET floor == IF f >= 0 THEN f \div q ELSE -((-f + q - 1) \div q)
        twice == 2 * (f - floor * q)
    IN IF twice < q THEN floor
       ELSE IF twice > q THEN floor + 1
       ELSE IF floor % 2 = 0 THEN floor ELSE floor + 1

\* C20: quantize returns F / Q rounded to the nearest integer, a tie going
\* to the even neighbour: 8 / 16 gives 0 and -24 / 16 gives -2.
C20_TiesToEven ==
    pc = "quantized" =>
        \A i \in 0..7, j \in 0..7 :
            quantized.ret[i][j] = SaturateI16(NearestTiesToEven(f_input[i][j], f_table[i][j]))

\* f / q lies halfway between two integers
IsTie(f, q) == (2 * f) % (2 * q) = q

\* away from the ties, quantize returns the nearest integer
NearestWhenNoTie ==
    pc = "quantized" =>
        \A i \in 0..7, j \in 0..7 :
            ~IsTie(f_input[i][j], f_table[i][j]) =>
                quantized.ret[i][j] = SaturateI16(NearestTiesToEven(f_input[i][j], f_table[i][j]))

----------------------------------------------------------------------------
(* encode_step3.rs: dct, and decode_step3.rs: DctDu::idct on what it returned *)

\* the block of test_dct and test_idct
DU_TABLE ==
    Matrix(<<(<<-76, -73, -67, -62, -58, -67, -64, -55>>),
             <<-65, -69, -73, -38, -19, -43, -59, -56>>,
             <<-66, -69, -60, -15, 16, -24, -62, -55>>,
             <<-65, -70, -57, -6, 26, -22, -58, -59>>,
             <<-61, -67, -60, -24, -2, -40, -60, -58>>,
             <<-49, -63, -68, -58, -51, -60, -70, -53>>,
             <<-43, -57, -64, -69, -73, -67, -63, -45>>,
             <<-41, -49, -59, -60, -63, -52, -50, -34>>>>)

\* a block with one sample at every place in turn, the constant blocks at
\* both ends of i8, a checkerboard of the two, and the block of the tests
BlockInputs ==
    {[x \in 0..7 |-> [y \in 0..7 |-> IF x = at[1] /\ y = at[2] THEN sample ELSE 0]] :
        at \in (0..7) \X (0..7), sample \in {-128, 127}}
    \cup {[x \in 0..7 |-> [y \in 0..7 |-> sample]] : sample \in {-128, 127}}
    \cup {[x \in 0..7 |-> [y \in 0..7 |-> IF (x + y) % 2 = 0 THEN -128 ELSE 127]],
          DU_TABLE}

InitDct ==
    /\ pc = "dct"
    /\ b_input \in BlockInputs
    /\ b_dct = <<>>
    /\ b_idct = <<>>
    /\ AceIdle /\ enc_result = "none"
    /\ EarlierIdle /\ VliIdle /\ DcIdle /\ FileIdle /\ AcIdle /\ ScanIdle /\ NumIdle

DctRest == <<earlierVars, vliVars, dcVars, fileVars, acVars, scanVars, numVars,
             aceVars, enc_result>>

Dct ==
    /\ pc = "dct"
    /\ b_dct' = dct(b_input)
    /\ pc' = "idct"
    /\ UNCHANGED <<b_input, b_idct, DctRest>>

Idct ==
    /\ pc = "idct"
    /\ b_idct' = idct(b_dct)
    /\ pc' = "idct done"
    /\ UNCHANGED <<b_input, b_dct, DctRest>>

NextDct ==
    \/ Dct
    \/ Idct

SpecDct == InitDct /\ [][NextDct]_vars

\* C21: for every 8x8 block B of signed 8-bit samples, dct(B).idct(),
\* rounded and stored as signed 8-bit, is B.
C21_DctRoundTrip ==
    pc = "idct done" => b_idct = b_input

\* the block of the tests has gone through both transforms
C21_Witness ==
    /\ pc = "idct done"
    /\ b_input[2][4] = 16
    /\ b_idct[2][4] = 16
    /\ b_dct[0][0][1] = -1

----------------------------------------------------------------------------
(* encode_step6.rs: the AcEncoder of one DU, call by call *)

\* coefficients with the given entries, <<index, value>>, and zeros elsewhere
AcWith(n, entries) ==
    [k \in 1..n |->
        IF \E e \in entries : e[1] = k
        THEN (CHOOSE e \in entries : e[1] = k)[2] ELSE 0]

\* the coefficients of test_ac_encoder
TEST_AC == AcWith(63, {<<1, 5>>, <<2, -2>>, <<4, 2>>, <<8, 1>>, <<31, -1>>})

\* the test's coefficients; no coefficient; runs of 15, 16, 17, 32 and 48
\* zeros before a coefficient; a coefficient in the last place
AcInputs ==
    {TEST_AC,
     AcWith(63, {}),
     AcWith(63, {<<16, 3>>}),
     AcWith(63, {<<17, -3>>}),
     AcWith(63, {<<1, 1023>>, <<19, -1023>>}),
     AcWith(63, {<<33, 7>>, <<34, -8>>}),
     AcWith(63, {<<2, -1>>, <<51, 100>>}),
     AcWith(63, {<<63, 1>>}),
     AcWith(63, {<<30, 2>>, <<63, -512>>})}

InitAce ==
    /\ pc = "ac_encoder"
    /\ ace_du \in AcInputs
    /\ ace_idx = 0
    /\ ace_run = 0
    /\ ace_out = <<>>
    /\ DctIdle /\ enc_result = "none"
    /\ EarlierIdle /\ VliIdle /\ DcIdle /\ FileIdle /\ AcIdle /\ ScanIdle /\ NumIdle

AceRest == <<earlierVars, vliVars, dcVars, fileVars, acVars, scanVars, numVars,
             dctVars, enc_result>>

\* ac_encoder.next on the next coefficient
AcEncoderNext ==
    /\ pc = "ac_encoder" /\ ace_idx < Len(ace_du)
    /\ \E r \in AcEncoder_next(ace_run, LuminanceAcTable, ace_du[ace_idx + 1]) :
           IF r.kind = "Ok"
           THEN /\ ace_out' = Append(ace_out, r.bits)
                /\ ace_run' = r.zero_run_length
                /\ ace_idx' = ace_idx + 1
                /\ pc' = pc
           ELSE /\ pc' = "aborted"
                /\ UNCHANGED <<ace_out, ace_run, ace_idx>>
    /\ UNCHANGED <<ace_du, AceRest>>

\* ac_encoder.flush(true) after the last coefficient
AcEncoderFlush ==
    /\ pc = "ac_encoder" /\ ace_idx = Len(ace_du)
    /\ \E r \in AcEncoder_flush(ace_run, LuminanceAcTable, TRUE) :
           IF r.kind = "Ok"
           THEN /\ ace_out' = Append(ace_out, r.bits)
                /\ pc' = "flushed"
           ELSE /\ pc' = "aborted"
                /\ UNCHANGED ace_out
    /\ UNCHANGED <<ace_du, ace_idx, ace_run, AceRest>>

NextAce ==
    \/ AcEncoderNext
    \/ AcEncoderFlush

SpecAce == InitAce /\ [][NextAce]_vars

\* the places of the nonzero coefficients, in order
NonZeroPlaces(du) == SelectSeq([k \in 1..Len(du) |-> k], LAMBDA k : du[k] # 0)

\* the value bits of v: the low bits of |v|, inverted for a negative v
ValueBits(v) ==
    LET a == IF v < 0 THEN -v ELSE v
        b == MsbBits(a, get_category(a))
    IN IF v > 0 THEN b ELSE [k \in 1..Len(b) |-> 1 - b[k]]

\* what the rule of the run lengths gives for the coefficients du
RunLengthBits(du, table) ==
    LET nz == NonZeroPlaces(du) IN
    Flatten([i \in 1..Len(nz) |->
        LET z == nz[i] - (IF i = 1 THEN 0 ELSE nz[i - 1]) - 1
            v == du[nz[i]]
            category == get_category(IF v < 0 THEN -v ELSE v)
        IN Flatten([t \in 1..(z \div 16) |-> table[240]])
               \o table[(z % 16) * 16 + category] \o ValueBits(v)])
    \o (IF du[Len(du)] = 0 THEN table[0] ELSE <<>>)

\* the bits test_ac_encoder expects
TEST_AC_TRUTH ==
    <<1, 0, 0,  1, 0, 1,  0, 1,  0, 1,  1, 1, 0, 1, 1,  1, 0,
      1, 1, 1, 0, 1, 0,  1,  1, 1, 1, 1, 1, 1, 1, 1, 0, 0, 1,
      1, 1, 1, 1, 0, 1, 1,  0,  1, 0, 1, 0>>

\* C22: the bits of the AcEncoder for the AC coefficients of a DU, next
\* for each and then flush(true), are: for every nonzero coefficient after
\* z zeros, floor(z / 16) ZRL codes, the code of (z mod 16) << 4 | category
\* and the value bits; one EOB and no ZRL for the zeros at the end; no EOB
\* when the last coefficient is not zero.
C22_RunLengthCoding ==
    pc = "flushed" =>
        /\ Flatten(ace_out) = RunLengthBits(ace_du, LuminanceAcTable)
        /\ ace_out[Len(ace_out)] =
               (IF ace_du[Len(ace_du)] = 0 THEN LuminanceAcTable[0] ELSE <<>>)
        /\ ace_du = TEST_AC => Flatten(ace_out) = TEST_AC_TRUTH

\* the coefficients of the test are coded, with a ZRL and the EOB
C22_Witness ==
    /\ pc = "flushed"
    /\ ace_du[31] = -1 /\ Len(ace_du) = 63
    /\ Flatten(ace_out) = TEST_AC_TRUTH

\* C23: the zero run of the AcEncoder never stays at 16 or more: after
\* every call of next it is below 16.
C23_RunBelow16 ==
    ace_run < 16

----------------------------------------------------------------------------
(* encode_step6.rs: the DcEncoder with the default DC tables *)

\* the values of test_dc_encoder, 0 and a value far from them
DcTestValues == {14, 114, -514, 0, -2047}

InitDcTest ==
    /\ pc = "DcEncoder_next"
    /\ dc_table \in {LuminanceDcTable, ChromaDcTable}
    /\ dc_values \in SeqsUpTo(DcTestValues, MaxDcTestLen)
    /\ dc_pred = 0
    /\ dc_diffs = <<>>
    /\ dc_bits = <<>>
    /\ dc_sum = 0
    /\ dc_offset = 0
    /\ dc_decoded = <<>>
    /\ EarlierIdle /\ VliIdle /\ FileIdle /\ AcIdle /\ RestIdle

SpecDcTest == InitDcTest /\ [][NextDc]_vars

\* the bits test_dc_encoder expects for 14, 114 and -514
TEST_DC_TRUTH ==
    <<1, 0, 1,  1, 1, 1, 0,
      1, 1, 1, 1, 0,  1, 1, 0, 0, 1, 0, 0,
      1, 1, 1, 1, 1, 1, 1, 0,  0, 1, 1, 0, 0, 0, 1, 0, 1, 1>>

\* the difference of the k-th value and the one before it, 0 before the first
DcDifference(values, k) == values[k] - (IF k = 1 THEN 0 ELSE values[k - 1])

\* C24: DcEncoder::next(v) with the prediction p emits the table's codeword
\* of the category of v - p and then that many value bits, most significant
\* first, the low bits of |v - p|, inverted for a negative v - p; after it
\* the prediction is v.  14, 114, -514 give the bits of the test.
C24_DcCodeAndValueBits ==
    pc # "aborted" =>
        /\ dc_bits = Flatten([k \in 1..Len(dc_diffs) |->
               LET d == DcDifference(dc_values, k) IN
               dc_table[get_category(IF d < 0 THEN -d ELSE d)] \o ValueBits(d)])
        /\ dc_pred = (IF dc_diffs = <<>> THEN 0 ELSE dc_values[Len(dc_diffs)])
        /\ (dc_values = <<14, 114, -514>> /\ Len(dc_diffs) = 3
               /\ dc_table = LuminanceDcTable) => dc_bits = TEST_DC_TRUTH

\* the three values of the test are encoded
C24_Witness ==
    /\ dc_values = <<14, 114, -514>> /\ Len(dc_diffs) = 3
    /\ dc_table = LuminanceDcTable
    /\ dc_bits = TEST_DC_TRUTH
    /\ dc_pred = -514

(***************************************************************************)
(* The frame header of the file.                                           *)
(***************************************************************************)

\* the bytes of the SOF0 segment of the file, <<>> before it is written
Sof0Written ==
    IF \E k \in 1..Len(written) : written[k][1] = "SOF0"
    THEN LET k == CHOOSE j \in 1..Len(written) : written[j][1] = "SOF0"
         IN SubSeq(output, written[k][2] + 1, WrittenEnd(k))
    ELSE <<>>

\* the three components of the frame: id, H * 16 + V, quantization table
Sof0Components == <<1, 33, 0, 2, 17, 1, 3, 17, 1>>

\* the segment but for the two sizes: marker, length 17, precision 8, and,
\* after the sizes, the count 3 and the components
Sof0Layout(s) ==
    /\ Len(s) = 19
    /\ SubSeq(s, 1, 5) = <<MarkerPrefix, MarkerSOF0, 0, 17, 8>>
    /\ SubSeq(s, 10, 19) = <<3>> \o Sof0Components

\* C25: the SOF0 segment written by encode_step7 is FF C0, length 17,
\* precision 8, the height and then the width of the raster before padding,
\* each in 2 bytes big-endian, the count 3 and the components (1, H2 V1, 0),
\* (2, H1 V1, 1), (3, H1 V1, 1).
C25_Sof0Segment ==
    Sof0Written # <<>> =>
        /\ Sof0Layout(Sof0Written)
        /\ U16(Sof0Written[6], Sof0Written[7]) = out_data.original_height
        /\ U16(Sof0Written[8], Sof0Written[9]) = out_data.original_width

\* what holds of every raster: the layout, and the sizes modulo 65536
Sof0SizesTruncated ==
    Sof0Written # <<>> =>
        /\ Sof0Layout(Sof0Written)
        /\ U16(Sof0Written[6], Sof0Written[7]) = out_data.original_height % 65536
        /\ U16(Sof0Written[8], Sof0Written[9]) = out_data.original_width % 65536

(***************************************************************************)
(* The APP0 segment of the file.                                           *)
(***************************************************************************)

\* the bytes of the APP0 segment of the file, <<>> before it is written
App0Written ==
    IF \E k \in 1..Len(written) : written[k][1] = "APP0"
    THEN LET k == CHOOSE j \in 1..Len(written) : written[j][1] = "APP0"
         IN SubSeq(output, written[k][2] + 1, WrittenEnd(k))
    ELSE <<>>

(* encode_step7.rs: test_app0, the bytes expected *)
TEST_APP0 == <<255, 224, 0, 16, 74, 70, 73, 70, 0, 1, 1, 0, 0, 1, 0, 1, 0, 0>>

\* C26: the default APP0 is written as the 18 bytes FF E0 00 10 4A 46 49 46
\* 00 01 01 00 00 01 00 01 00 00, and parse_app0 on the 14 bytes after the
\* length field returns the fields of the default APP0.
C26_App0RoundTrip ==
    App0Written # <<>> =>
        /\ App0Written = TEST_APP0
        /\ LET body == SubSeq(App0Written, 5, Len(App0Written))
           IN /\ Len(body) = 14
              /\ parse_app0(body).kind = "Ok"
              /\ parse_app0(body).app0 = APP0_default

C26_Witness ==
    /\ Len(App0Written) = 18
    /\ parse_app0(SubSeq(App0Written, 5, 18)).kind = "Ok"
    /\ parse_app0(SubSeq(App0Written, 5, 18)).app0.x_density = 1
    /\ pc = "returned"

(***************************************************************************)
(* The zigzag order against the table of the standard.                     *)
(***************************************************************************)

\* the position whose entry in the table is k
TablePosition(k) ==
    CHOOSE p \in Grid : ZIGZAG_TEST_DU_TABLE[p[1]][p[2]] = k

\* C27: the zigzag order is the one of the table [[0,1,5,6,14,15,27,28],
\* [2,4,7,13,16,26,29,42],...,[35,36,48,49,57,58,62,63]]: output index k of
\* zigzag is the input at the position whose entry in the table is k, and
\* to_quantized_du puts input index k at that position.
C27_StandardOrder ==
    /\ pc \in {"to_quantized_du", "restored"} =>
           /\ zigzag_du.kind = "Ok"
           /\ \A k \in 0..63 :
                  zigzag_du.du[k + 1] =
                      quantized_du[TablePosition(k)[1]][TablePosition(k)[2]]
    /\ pc = "restored" =>
           /\ restored_du.kind = "Ok"
           /\ \A k \in 0..63 :
                  restored_du.du[TablePosition(k)[1]][TablePosition(k)[2]] =
                      zigzag_du.du[k + 1]

\* test_zigzag of both files: the table becomes 0, 1, ..., 63 and comes back
C27_Witness ==
    /\ pc = "restored"
    /\ quantized_du = ZIGZAG_TEST_DU_TABLE
    /\ zigzag_du.du = ZIGZAG_DU_TABLE
    /\ restored_du.du = ZIGZAG_TEST_DU_TABLE

(***************************************************************************)
(* The codewords published with the default tables.                        *)
(***************************************************************************)

(* encode_step6.rs: LUMINANCE_DC, the third column, line by line *)
LUMINANCE_DC_CODEWORDS ==
    <<(<<0, 0>>), <<0, 1, 0>>, <<0, 1, 1>>, <<1, 0, 0>>, <<1, 0, 1>>,
      <<1, 1, 0>>, <<1, 1, 1, 0>>, <<1, 1, 1, 1, 0>>, <<1, 1, 1, 1, 1, 0>>,
      <<1, 1, 1, 1, 1, 1, 0>>, <<1, 1, 1, 1, 1, 1, 1, 0>>,
      <<1, 1, 1, 1, 1, 1, 1, 1, 0>>>>

(* encode_step6.rs: CHROMA_DC, the third column, line by line *)
CHROMA_DC_CODEWORDS ==
    <<(<<0, 0>>), <<0, 1>>, <<1, 0>>, <<1, 1, 0>>, <<1, 1, 1, 0>>,
      <<1, 1, 1, 1, 0>>, <<1, 1, 1, 1, 1, 0>>, <<1, 1, 1, 1, 1, 1, 0>>,
      <<1, 1, 1, 1, 1, 1, 1, 0>>, <<1, 1, 1, 1, 1, 1, 1, 1, 0>>,
      <<1, 1, 1, 1, 1, 1, 1, 1, 1, 0>>, <<1, 1, 1, 1, 1, 1, 1, 1, 1, 1, 0>>>>

(* encode_step6.rs: LUMINANCE_AC, the third column, line by line *)
LUMINANCE_AC_CODEWORDS ==
    <<(<<1, 0, 1, 0>>), <<0, 0>>, <<0, 1>>, <<1, 0, 0>>, <<1, 0, 1, 1>>,
      <<1, 1, 0, 1, 0>>, <<1, 1, 1, 1, 0, 0, 0>>, <<1, 1, 1, 1, 1, 0, 0, 0>>,
      <<1, 1, 1, 1, 1, 1, 0, 1, 1, 0>>,
      <<1, 1, 1, 1, 1, 1, 1, 1, 1, 0, 0, 0, 0, 0, 1, 0>>,
      <<1, 1, 1, 1, 1, 1, 1, 1, 1, 0, 0, 0, 0, 0, 1, 1>>, <<1, 1, 0, 0>>,
      <<1, 1, 0, 1, 1>>, <<1, 1, 1, 1, 0, 0, 1>>,
      <<1, 1, 1, 1, 1, 0, 1, 1, 0>>, <<1, 1, 1, 1, 1, 1, 1, 0, 1, 1, 0>>,
      <<1, 1, 1, 1, 1, 1, 1, 1, 1, 0, 0, 0, 0, 1, 0, 0>>,
      <<1, 1, 1, 1, 1, 1, 1, 1, 1, 0, 0, 0, 0, 1, 0, 1>>,
      <<1, 1, 1, 1, 1, 1, 1, 1, 1, 0, 0, 0, 0, 1, 1, 0>>,
      <<1, 1, 1, 1, 1, 1, 1, 1, 1, 0, 0, 0, 0, 1, 1, 1>>,
      <<1, 1, 1, 1, 1, 1, 1, 1, 1, 0, 0, 0, 1, 0, 0, 0>>, <<1, 1, 1, 0, 0>>,
      <<1, 1, 1, 1, 1, 0, 0, 1>>, <<1, 1, 1, 1, 1, 1, 0, 1, 1, 1>>,
      <<1, 1, 1, 1, 1, 1, 1, 1, 0, 1, 0, 0>>,
      <<1, 1, 1, 1, 1, 1, 1, 1, 1, 0, 0, 0, 1, 0, 0, 1>>,
      <<1, 1, 1, 1, 1, 1, 1, 1, 1, 0, 0, 0, 1, 0, 1, 0>>,
      <<1, 1, 1, 1, 1, 1, 1, 1, 1, 0, 0, 0, 1, 0, 1, 1>>,
      <<1, 1, 1, 1, 1, 1, 1, 1, 1, 0, 0, 0, 1, 1, 0, 0>>,
      <<1, 1, 1, 1, 1, 1, 1, 1, 1, 0, 0, 0, 1, 1, 0, 1>>,
      <<1, 1, 1, 1, 1, 1, 1, 1, 1, 0, 0, 0, 1, 1, 1, 0>>,
      <<1, 1, 1, 0, 1, 0>>, <<1, 1, 1, 1, 1, 0, 1, 1, 1>>,
      <<1, 1, 1, 1, 1, 1, 1, 1, 0, 1, 0, 1>>,
      <<1, 1, 1, 1, 1, 1, 1, 1, 1, 0, 0, 0, 1, 1, 1, 1>>,
      <<1, 1, 1, 1, 1, 1, 1, 1, 1, 0, 0, 1, 0, 0, 0, 0>>,
      <<1, 1, 1, 1, 1, 1, 1, 1, 1, 0, 0, 1, 0, 0, 0, 1>>,
      <<1, 1, 1, 1, 1, 1, 1, 1, 1, 0, 0, 1, 0, 0, 1, 0>>,
      <<1, 1, 1, 1, 1, 1, 1, 1, 1, 0, 0, 1, 0, 0, 1, 1>>,
      <<1, 1, 1, 1, 1, 1, 1, 1, 1, 0, 0, 1, 0, 1, 0, 0>>,
      <<1, 1, 1, 1, 1, 1, 1, 1, 1, 0, 0, 1, 0, 1, 0, 1>>,
      <<1, 1, 1, 0, 1, 1>>, <<1, 1, 1, 1, 1, 1, 1, 0, 0, 0>>,
      <<1, 1, 1, 1, 1, 1, 1, 1, 1, 0, 0, 1, 0, 1, 1, 0>>,
      <<1, 1, 1, 1, 1, 1, 1, 1, 1, 0, 0, 1, 0, 1, 1, 1>>,
      <<1, 1, 1, 1, 1, 1, 1, 1, 1, 0, 0, 1, 1, 0, 0, 0>>,
      <<1, 1, 1, 1, 1, 1, 1, 1, 1, 0, 0, 1, 1, 0, 0, 1>>,
      <<1, 1, 1, 1, 1, 1, 1, 1, 1, 0, 0, 1, 1, 0, 1, 0>>,
      <<1, 1, 1, 1, 1, 1, 1, 1, 1, 0, 0, 1, 1, 0, 1, 1>>,
      <<1, 1, 1, 1, 1, 1, 1, 1, 1, 0, 0, 1, 1, 1, 0, 0>>,
      <<1, 1, 1, 1, 1, 1, 1, 1, 1, 0, 0, 1, 1, 1, 0, 1>>,
      <<1, 1, 1, 1, 0, 1, 0>>, <<1, 1, 1, 1, 1, 1, 1, 0, 1, 1, 1>>,
      <<1, 1, 1, 1, 1, 1, 1, 1, 1, 0, 0, 1, 1, 1, 1, 0>>,
      <<1, 1, 1, 1, 1, 1, 1, 1, 1, 0, 0, 1, 1, 1, 1, 1>>,
      <<1, 1, 1, 1, 1, 1, 1, 1, 1, 0, 1, 0, 0, 0, 0, 0>>,
      <<1, 1, 1, 1, 1, 1, 1, 1, 1, 0, 1, 0, 0, 0, 0, 1>>,
      <<1, 1, 1, 1, 1, 1, 1, 1, 1, 0, 1, 0, 0, 0, 1, 0>>,
      <<1, 1, 1, 1, 1, 1, 1, 1, 1, 0, 1, 0, 0, 0, 1, 1>>,
      <<1, 1, 1, 1, 1, 1, 1, 1, 1, 0, 1, 0, 0, 1, 0, 0>>,
      <<1, 1, 1, 1, 1, 1, 1, 1, 1, 0, 1, 0, 0, 1, 0, 1>>,
      <<1, 1, 1, 1, 0, 1, 1>>, <<1, 1, 1, 1, 1, 1, 1, 1, 0, 1, 1, 0>>,
      <<1, 1, 1, 1, 1, 1, 1, 1, 1, 0, 1, 0, 0, 1, 1, 0>>,
      <<1, 1, 1, 1, 1, 1, 1, 1, 1, 0, 1, 0, 0, 1, 1, 1>>,
      <<1, 1, 1, 1, 1, 1, 1, 1, 1, 0, 1, 0, 1, 0, 0, 0>>,
      <<1, 1, 1, 1, 1, 1, 1, 1, 1, 0, 1, 0, 1, 0, 0, 1>>,
      <<1, 1, 1, 1, 1, 1, 1, 1, 1, 0, 1, 0, 1, 0, 1, 0>>,
      <<1, 1, 1, 1, 1, 1, 1, 1, 1, 0, 1, 0, 1, 0, 1, 1>>,
      <<1, 1, 1, 1, 1, 1, 1, 1, 1, 0, 1, 0, 1, 1, 0, 0>>,
      <<1, 1, 1, 1, 1, 1, 1, 1, 1, 0, 1, 0, 1, 1, 0, 1>>,
      <<1, 1, 1, 1, 1, 0, 1, 0>>, <<1, 1, 1, 1, 1, 1, 1, 1, 0, 1, 1, 1>>,
      <<1, 1, 1, 1, 1, 1, 1, 1, 1, 0, 1, 0, 1, 1, 1, 0>>,
      <<1, 1, 1, 1, 1, 1, 1, 1, 1, 0, 1, 0, 1, 1, 1, 1>>,
      <<1, 1, 1, 1, 1, 1, 1, 1, 1, 0, 1, 1, 0, 0, 0, 0>>,
      <<1, 1, 1, 1, 1, 1, 1, 1, 1, 0, 1, 1, 0, 0, 0, 1>>,
      <<1, 1, 1, 1, 1, 1, 1, 1, 1, 0, 1, 1, 0, 0, 1, 0>>,
      <<1, 1, 1, 1, 1, 1, 1, 1, 1, 0, 1, 1, 0, 0, 1, 1>>,
      <<1, 1, 1, 1, 1, 1, 1, 1, 1, 0, 1, 1, 0, 1, 0, 0>>,
      <<1, 1, 1, 1, 1, 1, 1, 1, 1, 0, 1, 1, 0, 1, 0, 1>>,
      <<1, 1, 1, 1, 1, 1, 0, 0, 0>>,
      <<1, 1, 1, 1, 1, 1, 1, 1, 1, 0, 0, 0, 0, 0, 0>>,
      <<1, 1, 1, 1, 1, 1, 1, 1, 1, 0, 1, 1, 0, 1, 1, 0>>,
      <<1, 1, 1, 1, 1, 1, 1, 1, 1, 0, 1, 1, 0, 1, 1, 1>>,
      <<1, 1, 1, 1, 1, 1, 1, 1, 1, 0, 1, 1, 1, 0, 0, 0>>,
      <<1, 1, 1, 1, 1, 1, 1, 1, 1, 0, 1, 1, 1, 0, 0, 1>>,
      <<1, 1, 1, 1, 1, 1, 1, 1, 1, 0, 1, 1, 1, 0, 1, 0>>,
      <<1, 1, 1, 1, 1, 1, 1, 1, 1, 0, 1, 1, 1, 0, 1, 1>>,
      <<1, 1, 1, 1, 1, 1, 1, 1, 1, 0, 1, 1, 1, 1, 0, 0>>,
      <<1, 1, 1, 1, 1, 1, 1, 1, 1, 0, 1, 1, 1, 1, 0, 1>>,
      <<1, 1, 1, 1, 1, 1, 0, 0, 1>>,
      <<1, 1, 1, 1, 1, 1, 1, 1, 1, 0, 1, 1, 1, 1, 1, 0>>,
      <<1, 1, 1, 1, 1, 1, 1, 1, 1, 0, 1, 1, 1, 1, 1, 1>>,
      <<1, 1, 1, 1, 1, 1, 1, 1, 1, 1, 0, 0, 0, 0, 0, 0>>,
      <<1, 1, 1, 1, 1, 1, 1, 1, 1, 1, 0, 0, 0, 0, 0, 1>>,
      <<1, 1, 1, 1, 1, 1, 1, 1, 1, 1, 0, 0, 0, 0, 1, 0>>,
      <<1, 1, 1, 1, 1, 1, 1, 1, 1, 1, 0, 0, 0, 0, 1, 1>>,
      <<1, 1, 1, 1, 1, 1, 1, 1, 1, 1, 0, 0, 0, 1, 0, 0>>,
      <<1, 1, 1, 1, 1, 1, 1, 1, 1, 1, 0, 0, 0, 1, 0, 1>>,
      <<1, 1, 1, 1, 1, 1, 1, 1, 1, 1, 0, 0, 0, 1, 1, 0>>,
      <<1, 1, 1, 1, 1, 1, 0, 1, 0>>,
      <<1, 1, 1, 1, 1, 1, 1, 1, 1, 1, 0, 0, 0, 1, 1, 1>>,
      <<1, 1, 1, 1, 1, 1, 1, 1, 1, 1, 0, 0, 1, 0, 0, 0>>,
      <<1, 1, 1, 1, 1, 1, 1, 1, 1, 1, 0, 0, 1, 0, 0, 1>>,
      <<1, 1, 1, 1, 1, 1, 1, 1, 1, 1, 0, 0, 1, 0, 1, 0>>,
      <<1, 1, 1, 1, 1, 1, 1, 1, 1, 1, 0, 0, 1, 0, 1, 1>>,
      <<1, 1, 1, 1, 1, 1, 1, 1, 1, 1, 0, 0, 1, 1, 0, 0>>,
      <<1, 1, 1, 1, 1, 1, 1, 1, 1, 1, 0, 0, 1, 1, 0, 1>>,
      <<1, 1, 1, 1, 1, 1, 1, 1, 1, 1, 0, 0, 1, 1, 1, 0>>,
      <<1, 1, 1, 1, 1, 1, 1, 1, 1, 1, 0, 0, 1, 1, 1, 1>>,
      <<1, 1, 1, 1, 1, 1, 1, 0, 0, 1>>,
      <<1, 1, 1, 1, 1, 1, 1, 1, 1, 1, 0, 1, 0, 0, 0, 0>>,
      <<1, 1, 1, 1, 1, 1, 1, 1, 1, 1, 0, 1, 0, 0, 0, 1>>,
      <<1, 1, 1, 1, 1, 1, 1, 1, 1, 1, 0, 1, 0, 0, 1, 0>>,
      <<1, 1, 1, 1, 1, 1, 1, 1, 1, 1, 0, 1, 0, 0, 1, 1>>,
      <<1, 1, 1, 1, 1, 1, 1, 1, 1, 1, 0, 1, 0, 1, 0, 0>>,
      <<1, 1, 1, 1, 1, 1, 1, 1, 1, 1, 0, 1, 0, 1, 0, 1>>,
      <<1, 1, 1, 1, 1, 1, 1, 1, 1, 1, 0, 1, 0, 1, 1, 0>>,
      <<1, 1, 1, 1, 1, 1, 1, 1, 1, 1, 0, 1, 0, 1, 1, 1>>,
      <<1, 1, 1, 1, 1, 1, 1, 1, 1, 1, 0, 1, 1, 0, 0, 0>>,
      <<1, 1, 1, 1, 1, 1, 1, 0, 1, 0>>,
      <<1, 1, 1, 1, 1, 1, 1, 1, 1, 1, 0, 1, 1, 0, 0, 1>>,
      <<1, 1, 1, 1, 1, 1, 1, 1, 1, 1, 0, 1, 1, 0, 1, 0>>,
      <<1, 1, 1, 1, 1, 1, 1, 1, 1, 1, 0, 1, 1, 0, 1, 1>>,
      <<1, 1, 1, 1, 1, 1, 1, 1, 1, 1, 0, 1, 1, 1, 0, 0>>,
      <<1, 1, 1, 1, 1, 1, 1, 1, 1, 1, 0, 1, 1, 1, 0, 1>>,
      <<1, 1, 1, 1, 1, 1, 1, 1, 1, 1, 0, 1, 1, 1, 1, 0>>,
      <<1, 1, 1, 1, 1, 1, 1, 1, 1, 1, 0, 1, 1, 1, 1, 1>>,
      <<1, 1, 1, 1, 1, 1, 1, 1, 1, 1, 1, 0, 0, 0, 0, 0>>,
      <<1, 1, 1, 1, 1, 1, 1, 1, 1, 1, 1, 0, 0, 0, 0, 1>>,
      <<1, 1, 1, 1, 1, 1, 1, 1, 0, 0, 0>>,
      <<1, 1, 1, 1, 1, 1, 1, 1, 1, 1, 1, 0, 0, 0, 1, 0>>,
      <<1, 1, 1, 1, 1, 1, 1, 1, 1, 1, 1, 0, 0, 0, 1, 1>>,
      <<1, 1, 1, 1, 1, 1, 1, 1, 1, 1, 1, 0, 0, 1, 0, 0>>,
      <<1, 1, 1, 1, 1, 1, 1, 1, 1, 1, 1, 0, 0, 1, 0, 1>>,
      <<1, 1, 1, 1, 1, 1, 1, 1, 1, 1, 1, 0, 0, 1, 1, 0>>,
      <<1, 1, 1, 1, 1, 1, 1, 1, 1, 1, 1, 0, 0, 1, 1, 1>>,
      <<1, 1, 1, 1, 1, 1, 1, 1, 1, 1, 1, 0, 1, 0, 0, 0>>,
      <<1, 1, 1, 1, 1, 1, 1, 1, 1, 1, 1, 0, 1, 0, 0, 1>>,
      <<1, 1, 1, 1, 1, 1, 1, 1, 1, 1, 1, 0, 1, 0, 1, 0>>,
      <<1, 1, 1, 1, 1, 1, 1, 1, 1, 1, 1, 0, 1, 0, 1, 1>>,
      <<1, 1, 1, 1, 1, 1, 1, 1, 1, 1, 1, 0, 1, 1, 0, 0>>,
      <<1, 1, 1, 1, 1, 1, 1, 1, 1, 1, 1, 0, 1, 1, 0, 1>>,
      <<1, 1, 1, 1, 1, 1, 1, 1, 1, 1, 1, 0, 1, 1, 1, 0>>,
      <<1, 1, 1, 1, 1, 1, 1, 1, 1, 1, 1, 0, 1, 1, 1, 1>>,
      <<1, 1, 1, 1, 1, 1, 1, 1, 1, 1, 1, 1, 0, 0, 0, 0>>,
      <<1, 1, 1, 1, 1, 1, 1, 1, 1, 1, 1, 1, 0, 0, 0, 1>>,
      <<1, 1, 1, 1, 1, 1, 1, 1, 1, 1, 1, 1, 0, 0, 1, 0>>,
      <<1, 1, 1, 1, 1, 1, 1, 1, 1, 1, 1, 1, 0, 0, 1, 1>>,
      <<1, 1, 1, 1, 1, 1, 1, 1, 1, 1, 1, 1, 0, 1, 0, 0>>,
      <<1, 1, 1, 1, 1, 1, 1, 1, 0, 0, 1>>,
      <<1, 1, 1, 1, 1, 1, 1, 1, 1, 1, 1, 1, 0, 1, 0, 1>>,
      <<1, 1, 1, 1, 1, 1, 1, 1, 1, 1, 1, 1, 0, 1, 1, 0>>,
      <<1, 1, 1, 1, 1, 1, 1, 1, 1, 1, 1, 1, 0, 1, 1, 1>>,
      <<1, 1, 1, 1, 1, 1, 1, 1, 1, 1, 1, 1, 1, 0, 0, 0>>,
      <<1, 1, 1, 1, 1, 1, 1, 1, 1, 1, 1, 1, 1, 0, 0, 1>>,
      <<1, 1, 1, 1, 1, 1, 1, 1, 1, 1, 1, 1, 1, 0, 1, 0>>,
      <<1, 1, 1, 1, 1, 1, 1, 1, 1, 1, 1, 1, 1, 0, 1, 1>>,
      <<1, 1, 1, 1, 1, 1, 1, 1, 1, 1, 1, 1, 1, 1, 0, 0>>,
      <<1, 1, 1, 1, 1, 1, 1, 1, 1, 1, 1, 1, 1, 1, 0, 1>>,
      <<1, 1, 1, 1, 1, 1, 1, 1, 1, 1, 1, 1, 1, 1, 1, 0>>>>

(* encode_step6.rs: CHROMA_AC, the third column, line by line *)
CHROMA_AC_CODEWORDS ==
    <<(<<0, 0>>), <<0, 1>>, <<1, 0, 0>>, <<1, 0, 1, 0>>, <<1, 1, 0, 0, 0>>,
      <<1, 1, 0, 0, 1>>, <<1, 1, 1, 0, 0, 0>>, <<1, 1, 1, 1, 0, 0, 0>>,
      <<1, 1, 1, 1, 1, 0, 1, 0, 0>>, <<1, 1, 1, 1, 1, 1, 0, 1, 1, 0>>,
      <<1, 1, 1, 1, 1, 1, 1, 1, 0, 1, 0, 0>>, <<1, 0, 1, 1>>,
      <<1, 1, 1, 0, 0, 1>>, <<1, 1, 1, 1, 0, 1, 1, 0>>,
      <<1, 1, 1, 1, 1, 0, 1, 0, 1>>, <<1, 1, 1, 1, 1, 1, 1, 0, 1, 1, 0>>,
      <<1, 1, 1, 1, 1, 1, 1, 1, 0, 1, 0, 1>>,
      <<1, 1, 1, 1, 1, 1, 1, 1, 1, 0, 0, 0, 1, 0, 0, 0>>,
      <<1, 1, 1, 1, 1, 1, 1, 1, 1, 0, 0, 0, 1, 0, 0, 1>>,
      <<1, 1, 1, 1, 1, 1, 1, 1, 1, 0, 0, 0, 1, 0, 1, 0>>,
      <<1, 1, 1, 1, 1, 1, 1, 1, 1, 0, 0, 0, 1, 0, 1, 1>>, <<1, 1, 0, 1, 0>>,
      <<1, 1, 1, 1, 0, 1, 1, 1>>, <<1, 1, 1, 1, 1, 1, 0, 1, 1, 1>>,
      <<1, 1, 1, 1, 1, 1, 1, 1, 0, 1, 1, 0>>,
      <<1, 1, 1, 1, 1, 1, 1, 1, 1, 0, 0, 0, 0, 1, 0>>,
      <<1, 1, 1, 1, 1, 1, 1, 1, 1, 0, 0, 0, 1, 1, 0, 0>>,
      <<1, 1, 1, 1, 1, 1, 1, 1, 1, 0, 0, 0, 1, 1, 0, 1>>,
      <<1, 1, 1, 1, 1, 1, 1, 1, 1, 0, 0, 0, 1, 1, 1, 0>>,
      <<1, 1, 1, 1, 1, 1, 1, 1, 1, 0, 0, 0, 1, 1, 1, 1>>,
      <<1, 1, 1, 1, 1, 1, 1, 1, 1, 0, 0, 1, 0, 0, 0, 0>>, <<1, 1, 0, 1, 1>>,
      <<1, 1, 1, 1, 1, 0, 0, 0>>, <<1, 1, 1, 1, 1, 1, 1, 0, 0, 0>>,
      <<1, 1, 1, 1, 1, 1, 1, 1, 0, 1, 1, 1>>,
      <<1, 1, 1, 1, 1, 1, 1, 1, 1, 0, 0, 1, 0, 0, 0, 1>>,
      <<1, 1, 1, 1, 1, 1, 1, 1, 1, 0, 0, 1, 0, 0, 1, 0>>,
      <<1, 1, 1, 1, 1, 1, 1, 1, 1, 0, 0, 1, 0, 0, 1, 1>>,
      <<1, 1, 1, 1, 1, 1, 1, 1, 1, 0, 0, 1, 0, 1, 0, 0>>,
      <<1, 1, 1, 1, 1, 1, 1, 1, 1, 0, 0, 1, 0, 1, 0, 1>>,
      <<1, 1, 1, 1, 1, 1, 1, 1, 1, 0, 0, 1, 0, 1, 1, 0>>,
      <<1, 1, 1, 0, 1, 0>>, <<1, 1, 1, 1, 1, 0, 1, 1, 0>>,
      <<1, 1, 1, 1, 1, 1, 1, 1, 1, 0, 0, 1, 0, 1, 1, 1>>,
      <<1, 1, 1, 1, 1, 1, 1, 1, 1, 0, 0, 1, 1, 0, 0, 0>>,
      <<1, 1, 1, 1, 1, 1, 1, 1, 1, 0, 0, 1, 1, 0, 0, 1>>,
      <<1, 1, 1, 1, 1, 1, 1, 1, 1, 0, 0, 1, 1, 0, 1, 0>>,
      <<1, 1, 1, 1, 1, 1, 1, 1, 1, 0, 0, 1, 1, 0, 1, 1>>,
      <<1, 1, 1, 1, 1, 1, 1, 1, 1, 0, 0, 1, 1, 1, 0, 0>>,
      <<1, 1, 1, 1, 1, 1, 1, 1, 1, 0, 0, 1, 1, 1, 0, 1>>,
      <<1, 1, 1, 1, 1, 1, 1, 1, 1, 0, 0, 1, 1, 1, 1, 0>>,
      <<1, 1, 1, 0, 1, 1>>, <<1, 1, 1, 1, 1, 1, 1, 0, 0, 1>>,
      <<1, 1, 1, 1, 1, 1, 1, 1, 1, 0, 0, 1, 1, 1, 1, 1>>,
      <<1, 1, 1, 1, 1, 1, 1, 1, 1, 0, 1, 0, 0, 0, 0, 0>>,
      <<1, 1, 1, 1, 1, 1, 1, 1, 1, 0, 1, 0, 0, 0, 0, 1>>,
      <<1, 1, 1, 1, 1, 1, 1, 1, 1, 0, 1, 0, 0, 0, 1, 0>>,
      <<1, 1, 1, 1, 1, 1, 1, 1, 1, 0, 1, 0, 0, 0, 1, 1>>,
      <<1, 1, 1, 1, 1, 1, 1, 1, 1, 0, 1, 0, 0, 1, 0, 0>>,
      <<1, 1, 1, 1, 1, 1, 1, 1, 1, 0, 1, 0, 0, 1, 0, 1>>,
      <<1, 1, 1, 1, 1, 1, 1, 1, 1, 0, 1, 0, 0, 1, 1, 0>>,
      <<1, 1, 1, 1, 0, 0, 1>>, <<1, 1, 1, 1, 1, 1, 1, 0, 1, 1, 1>>,
      <<1, 1, 1, 1, 1, 1, 1, 1, 1, 0, 1, 0, 0, 1, 1, 1>>,
      <<1, 1, 1, 1, 1, 1, 1, 1, 1, 0, 1, 0, 1, 0, 0, 0>>,
      <<1, 1, 1, 1, 1, 1, 1, 1, 1, 0, 1, 0, 1, 0, 0, 1>>,
      <<1, 1, 1, 1, 1, 1, 1, 1, 1, 0, 1, 0, 1, 0, 1, 0>>,
      <<1, 1, 1, 1, 1, 1, 1, 1, 1, 0, 1, 0, 1, 0, 1, 1>>,
      <<1, 1, 1, 1, 1, 1, 1, 1, 1, 0, 1, 0, 1, 1, 0, 0>>,
      <<1, 1, 1, 1, 1, 1, 1, 1, 1, 0, 1, 0, 1, 1, 0, 1>>,
      <<1, 1, 1, 1, 1, 1, 1, 1, 1, 0, 1, 0, 1, 1, 1, 0>>,
      <<1, 1, 1, 1, 0, 1, 0>>, <<1, 1, 1, 1, 1, 1, 1, 1, 0, 0, 0>>,
      <<1, 1, 1, 1, 1, 1, 1, 1, 1, 0, 1, 0, 1, 1, 1, 1>>,
      <<1, 1, 1, 1, 1, 1, 1, 1, 1, 0, 1, 1, 0, 0, 0, 0>>,
      <<1, 1, 1, 1, 1, 1, 1, 1, 1, 0, 1, 1, 0, 0, 0, 1>>,
      <<1, 1, 1, 1, 1, 1, 1, 1, 1, 0, 1, 1, 0, 0, 1, 0>>,
      <<1, 1, 1, 1, 1, 1, 1, 1, 1, 0, 1, 1, 0, 0, 1, 1>>,
      <<1, 1, 1, 1, 1, 1, 1, 1, 1, 0, 1, 1, 0, 1, 0, 0>>,
      <<1, 1, 1, 1, 1, 1, 1, 1, 1, 0, 1, 1, 0, 1, 0, 1>>,
      <<1, 1, 1, 1, 1, 1, 1, 1, 1, 0, 1, 1, 0, 1, 1, 0>>,
      <<1, 1, 1, 1, 1, 0, 0, 1>>,
      <<1, 1, 1, 1, 1, 1, 1, 1, 1, 0, 1, 1, 0, 1, 1, 1>>,
      <<1, 1, 1, 1, 1, 1, 1, 1, 1, 0, 1, 1, 1, 0, 0, 0>>,
      <<1, 1, 1, 1, 1, 1, 1, 1, 1, 0, 1, 1, 1, 0, 0, 1>>,
      <<1, 1, 1, 1, 1, 1, 1, 1, 1, 0, 1, 1, 1, 0, 1, 0>>,
      <<1, 1, 1, 1, 1, 1, 1, 1, 1, 0, 1, 1, 1, 0, 1, 1>>,
      <<1, 1, 1, 1, 1, 1, 1, 1, 1, 0, 1, 1, 1, 1, 0, 0>>,
      <<1, 1, 1, 1, 1, 1, 1, 1, 1, 0, 1, 1, 1, 1, 0, 1>>,
      <<1, 1, 1, 1, 1, 1, 1, 1, 1, 0, 1, 1, 1, 1, 1, 0>>,
      <<1, 1, 1, 1, 1, 1, 1, 1, 1, 0, 1, 1, 1, 1, 1, 1>>,
      <<1, 1, 1, 1, 1, 0, 1, 1, 1>>,
      <<1, 1, 1, 1, 1, 1, 1, 1, 1, 1, 0, 0, 0, 0, 0, 0>>,
      <<1, 1, 1, 1, 1, 1, 1, 1, 1, 1, 0, 0, 0, 0, 0, 1>>,
      <<1, 1, 1, 1, 1, 1, 1, 1, 1, 1, 0, 0, 0, 0, 1, 0>>,
      <<1, 1, 1, 1, 1, 1, 1, 1, 1, 1, 0, 0, 0, 0, 1, 1>>,
      <<1, 1, 1, 1, 1, 1, 1, 1, 1, 1, 0, 0, 0, 1, 0, 0>>,
      <<1, 1, 1, 1, 1, 1, 1, 1, 1, 1, 0, 0, 0, 1, 0, 1>>,
      <<1, 1, 1, 1, 1, 1, 1, 1, 1, 1, 0, 0, 0, 1, 1, 0>>,
      <<1, 1, 1, 1, 1, 1, 1, 1, 1, 1, 0, 0, 0, 1, 1, 1>>,
      <<1, 1, 1, 1, 1, 1, 1, 1, 1, 1, 0, 0, 1, 0, 0, 0>>,
      <<1, 1, 1, 1, 1, 1, 0, 0, 0>>,
      <<1, 1, 1, 1, 1, 1, 1, 1, 1, 1, 0, 0, 1, 0, 0, 1>>,
      <<1, 1, 1, 1, 1, 1, 1, 1, 1, 1, 0, 0, 1, 0, 1, 0>>,
      <<1, 1, 1, 1, 1, 1, 1, 1, 1, 1, 0, 0, 1, 0, 1, 1>>,
      <<1, 1, 1, 1, 1, 1, 1, 1, 1, 1, 0, 0, 1, 1, 0, 0>>,
      <<1, 1, 1, 1, 1, 1, 1, 1, 1, 1, 0, 0, 1, 1, 0, 1>>,
      <<1, 1, 1, 1, 1, 1, 1, 1, 1, 1, 0, 0, 1, 1, 1, 0>>,
      <<1, 1, 1, 1, 1, 1, 1, 1, 1, 1, 0, 0, 1, 1, 1, 1>>,
      <<1, 1, 1, 1, 1, 1, 1, 1, 1, 1, 0, 1, 0, 0, 0, 0>>,
      <<1, 1, 1, 1, 1, 1, 1, 1, 1, 1, 0, 1, 0, 0, 0, 1>>,
      <<1, 1, 1, 1, 1, 1, 0, 0, 1>>,
      <<1, 1, 1, 1, 1, 1, 1, 1, 1, 1, 0, 1, 0, 0, 1, 0>>,
      <<1, 1, 1, 1, 1, 1, 1, 1, 1, 1, 0, 1, 0, 0, 1, 1>>,
      <<1, 1, 1, 1, 1, 1, 1, 1, 1, 1, 0, 1, 0, 1, 0, 0>>,
      <<1, 1, 1, 1, 1, 1, 1, 1, 1, 1, 0, 1, 0, 1, 0, 1>>,
      <<1, 1, 1, 1, 1, 1, 1, 1, 1, 1, 0, 1, 0, 1, 1, 0>>,
      <<1, 1, 1, 1, 1, 1, 1, 1, 1, 1, 0, 1, 0, 1, 1, 1>>,
      <<1, 1, 1, 1, 1, 1, 1, 1, 1, 1, 0, 1, 1, 0, 0, 0>>,
      <<1, 1, 1, 1, 1, 1, 1, 1, 1, 1, 0, 1, 1, 0, 0, 1>>,
      <<1, 1, 1, 1, 1, 1, 1, 1, 1, 1, 0, 1, 1, 0, 1, 0>>,
      <<1, 1, 1, 1, 1, 1, 0, 1, 0>>,
      <<1, 1, 1, 1, 1, 1, 1, 1, 1, 1, 0, 1, 1, 0, 1, 1>>,
      <<1, 1, 1, 1, 1, 1, 1, 1, 1, 1, 0, 1, 1, 1, 0, 0>>,
      <<1, 1, 1, 1, 1, 1, 1, 1, 1, 1, 0, 1, 1, 1, 0, 1>>,
      <<1, 1, 1, 1, 1, 1, 1, 1, 1, 1, 0, 1, 1, 1, 1, 0>>,
      <<1, 1, 1, 1, 1, 1, 1, 1, 1, 1, 0, 1, 1, 1, 1, 1>>,
      <<1, 1, 1, 1, 1, 1, 1, 1, 1, 1, 1, 0, 0, 0, 0, 0>>,
      <<1, 1, 1, 1, 1, 1, 1, 1, 1, 1, 1, 0, 0, 0, 0, 1>>,
      <<1, 1, 1, 1, 1, 1, 1, 1, 1, 1, 1, 0, 0, 0, 1, 0>>,
      <<1, 1, 1, 1, 1, 1, 1, 1, 1, 1, 1, 0, 0, 0, 1, 1>>,
      <<1, 1, 1, 1, 1, 1, 1, 1, 0, 0, 1>>,
      <<1, 1, 1, 1, 1, 1, 1, 1, 1, 1, 1, 0, 0, 1, 0, 0>>,
      <<1, 1, 1, 1, 1, 1, 1, 1, 1, 1, 1, 0, 0, 1, 0, 1>>,
      <<1, 1, 1, 1, 1, 1, 1, 1, 1, 1, 1, 0, 0, 1, 1, 0>>,
      <<1, 1, 1, 1, 1, 1, 1, 1, 1, 1, 1, 0, 0, 1, 1, 1>>,
      <<1, 1, 1, 1, 1, 1, 1, 1, 1, 1, 1, 0, 1, 0, 0, 0>>,
      <<1, 1, 1, 1, 1, 1, 1, 1, 1, 1, 1, 0, 1, 0, 0, 1>>,
      <<1, 1, 1, 1, 1, 1, 1, 1, 1, 1, 1, 0, 1, 0, 1, 0>>,
      <<1, 1, 1, 1, 1, 1, 1, 1, 1, 1, 1, 0, 1, 0, 1, 1>>,
      <<1, 1, 1, 1, 1, 1, 1, 1, 1, 1, 1, 0, 1, 1, 0, 0>>,
      <<1, 1, 1, 1, 1, 1, 1, 1, 1, 0, 0, 0, 0, 0>>,
      <<1, 1, 1, 1, 1, 1, 1, 1, 1, 1, 1, 0, 1, 1, 0, 1>>,
      <<1, 1, 1, 1, 1, 1, 1, 1, 1, 1, 1, 0, 1, 1, 1, 0>>,
      <<1, 1, 1, 1, 1, 1, 1, 1, 1, 1, 1, 0, 1, 1, 1, 1>>,
      <<1, 1, 1, 1, 1, 1, 1, 1, 1, 1, 1, 1, 0, 0, 0, 0>>,
      <<1, 1, 1, 1, 1, 1, 1, 1, 1, 1, 1, 1, 0, 0, 0, 1>>,
      <<1, 1, 1, 1, 1, 1, 1, 1, 1, 1, 1, 1, 0, 0, 1, 0>>,
      <<1, 1, 1, 1, 1, 1, 1, 1, 1, 1, 1, 1, 0, 0, 1, 1>>,
      <<1, 1, 1, 1, 1, 1, 1, 1, 1, 1, 1, 1, 0, 1, 0, 0>>,
      <<1, 1, 1, 1, 1, 1, 1, 1, 1, 1, 1, 1, 0, 1, 0, 1>>,
      <<1, 1, 1, 1, 1, 1, 1, 0, 1, 0>>,
      <<1, 1, 1, 1, 1, 1, 1, 1, 1, 0, 0, 0, 0, 1, 1>>,
      <<1, 1, 1, 1, 1, 1, 1, 1, 1, 1, 1, 1, 0, 1, 1, 0>>,
      <<1, 1, 1, 1, 1, 1, 1, 1, 1, 1, 1, 1, 0, 1, 1, 1>>,
      <<1, 1, 1, 1, 1, 1, 1, 1, 1, 1, 1, 1, 1, 0, 0, 0>>,
      <<1, 1, 1, 1, 1, 1, 1, 1, 1, 1, 1, 1, 1, 0, 0, 1>>,
      <<1, 1, 1, 1, 1, 1, 1, 1, 1, 1, 1, 1, 1, 0, 1, 0>>,
      <<1, 1, 1, 1, 1, 1, 1, 1, 1, 1, 1, 1, 1, 0, 1, 1>>,
      <<1, 1, 1, 1, 1, 1, 1, 1, 1, 1, 1, 1, 1, 1, 0, 0>>,
      <<1, 1, 1, 1, 1, 1, 1, 1, 1, 1, 1, 1, 1, 1, 0, 1>>,
      <<1, 1, 1, 1, 1, 1, 1, 1, 1, 1, 1, 1, 1, 1, 1, 0>>>>
\* the lines of a length, in the order of the text
LinesOfLength(content, length) ==
    SelectSeq([k \in 1..Len(content) |-> k],
              LAMBDA k : content[k][2] = length)

\* generate_huffman_table, the second value returned: the codewords of the
\* lines by length, then by line, as values are
generate_huffman_table_bits(content, words) ==
    Flatten([i \in 1..16 |->
        [j \in 1..Len(LinesOfLength(content, i)) |->
            words[LinesOfLength(content, i)[j]]]])

\* the four default tables: the table, the text and its codewords
DefaultTables ==
    <<[table |-> DEFAULT_LUMINANCE_DC_HUFFMAN_TABLE, content |-> LUMINANCE_DC,
       bits_vec |-> generate_huffman_table_bits(LUMINANCE_DC, LUMINANCE_DC_CODEWORDS),
       words |-> LUMINANCE_DC_CODEWORDS],
      [table |-> DEFAULT_CHROMA_DC_HUFFMAN_TABLE, content |-> CHROMA_DC,
       bits_vec |-> generate_huffman_table_bits(CHROMA_DC, CHROMA_DC_CODEWORDS),
       words |-> CHROMA_DC_CODEWORDS],
      [table |-> DEFAULT_LUMINANCE_AC_HUFFMAN_TABLE, content |-> LUMINANCE_AC,
       bits_vec |-> generate_huffman_table_bits(LUMINANCE_AC, LUMINANCE_AC_CODEWORDS),
       words |-> LUMINANCE_AC_CODEWORDS],
      [table |-> DEFAULT_CHROMA_AC_HUFFMAN_TABLE, content |-> CHROMA_AC,
       bits_vec |-> generate_huffman_table_bits(CHROMA_AC, CHROMA_AC_CODEWORDS),
       words |-> CHROMA_AC_CODEWORDS]>>

\* generate_bits on the code lengths of the default tables, and on those of
\* CodeLengthInputs
InitDefaultTables ==
    /\ pc = "generate_bits"
    /\ codes \in CodeLengthInputs \cup {DefaultTables[t].table.codes : t \in 1..4}
    /\ bits = <<>>
    /\ DecIdle /\ StuffIdle /\ ZigIdle /\ LaterIdle

SpecDefaultTables == InitDefaultTables /\ [][NextHuffman]_vars

\* the codeword that the text lists for a symbol
PublishedCodeword(t, symbol) ==
    DefaultTables[t].words[
        CHOOSE k \in 1..Len(DefaultTables[t].content) :
            DefaultTables[t].content[k][1] = symbol]

\* C28: for each of the four default tables the codewords that generate_bits
\* makes from the code lengths are, in order, the published ones: the i-th
\* is the codeword that the text lists for values[i].
C28_PublishedCodewords ==
    \A t \in 1..4 :
        (pc = "generated" /\ codes = DefaultTables[t].table.codes) =>
            /\ bits = DefaultTables[t].bits_vec
            /\ Len(bits) = Len(DefaultTables[t].table.values)
            /\ \A i \in 1..Len(bits) :
                   bits[i] = PublishedCodeword(t, DefaultTables[t].table.values[i])

\* the 162 codewords of the luminance AC table were generated: the first is
\* 00 for the symbol 1, the last 1111111111111110 for 0xFA
C28_Witness ==
    /\ pc = "generated"
    /\ codes = DEFAULT_LUMINANCE_AC_HUFFMAN_TABLE.codes
    /\ Len(bits) = 162
    /\ bits[1] = <<0, 0>>
    /\ DEFAULT_LUMINANCE_AC_HUFFMAN_TABLE.values[1] = 1
    /\ DEFAULT_LUMINANCE_AC_HUFFMAN_TABLE.values[162] = 250
    /\ bits[162] = <<1, 1, 1, 1, 1, 1, 1, 1, 1, 1, 1, 1, 1, 1, 1, 0>>

(***************************************************************************)
(* mod.rs: encode, from the raster to the file.                            *)
(***************************************************************************)

\* encode_step1 is not among the sources.  Its planes follow the data model:
\* Y of padded_width x padded_height, Cb and Cr of half the width, here
\* filled with one sample.  Of a raster without pixels both outcomes are
\* kept: the error for invalid dimensions, and planes without samples.
encode_step1(original_width, original_height, sample) ==
    LET pw == padded_width(original_width)
        ph == padded_height(original_height)
        planes == [kind |-> "Ok",
                   y |-> [k \in 1..(pw * ph) |-> sample],
                   u |-> [k \in 1..((pw \div 2) * ph) |-> sample],
                   v |-> [k \in 1..((pw \div 2) * ph) |-> sample]]
    IN IF original_width = 0 \/ original_height = 0
       THEN {ErrResult, planes}
       ELSE {planes}

\* show_step2 .. show_step5 print element 0 of the MCUs they are given
ShowAborts(collection) == Len(collection) = 0

\* the widths and heights of the rasters: none, one pixel, one MCU, and one
\* pixel more than an MCU
RasterWidths == {0, 1, 16, MaxImageWidth}
RasterHeights == {0, 1, 8, MaxImageHeight}

InitEncode ==
    /\ pc = "encode"
    /\ img_width \in RasterWidths
    /\ img_height \in RasterHeights
    /\ img_sample \in {0, 200}
    /\ mcus = <<>>
    /\ zigzag_mcus = <<>>
    /\ enc_scan = [kind |-> "none"]
    /\ read_scan = <<>>
    /\ step2_result = [kind |-> "none"]
    /\ EarlierIdle /\ VliIdle /\ DcIdle /\ FileIdle /\ AcIdle /\ NumIdle /\ ThirdIdle

EncodeRest == <<earlierVars, vliVars, dcVars, acVars, numVars, dctVars, aceVars>>

\* let yuv_image = encode_step1(image)?; let mcu_collection =
\* encode_step2(&yuv_image)?; show_step2(&mcu_collection);
EncodeSteps1And2 ==
    /\ pc = "encode"
    /\ \E yuv_image \in encode_step1(img_width, img_height, img_sample) :
          IF yuv_image.kind # "Ok"
          THEN /\ enc_result' = "Err"
               /\ pc' = "encode returned"
               /\ mcus' = mcus
          ELSE /\ mcus' = encode_step2(img_width, yuv_image.y, yuv_image.u,
                                       yuv_image.v, img_height)
               /\ pc' = IF ShowAborts(mcus') THEN "aborted" ELSE "encode: step3"
               /\ enc_result' = enc_result
    /\ UNCHANGED <<img_width, img_height, img_sample, zigzag_mcus, enc_scan,
                   read_scan, step2_result, fileVars, EncodeRest>>

\* encode_step3, encode_step4, encode_step5, each on what the step before
\* returned, and their show_step
EncodeShowSteps3To5 ==
    /\ pc = "encode: step3"
    /\ \E dct_mcus \in {encode_step3(mcus)} :
       \E quantized_mcus \in {encode_step4(dct_mcus)} :
       \E zigzag_mcu_collection \in {encode_step5(quantized_mcus)} :
       IF zigzag_mcu_collection.kind = "Ok"
       THEN /\ zigzag_mcus' = zigzag_mcu_collection.zigzag_mcus
            /\ pc' = IF ShowAborts(mcus) THEN "aborted" ELSE "encode: step6"
       ELSE /\ zigzag_mcus' = zigzag_mcus
            /\ pc' = "aborted"
    /\ UNCHANGED <<img_width, img_height, img_sample, mcus, enc_scan,
                   read_scan, step2_result, fileVars, EncodeRest, enc_result>>

\* let jpeg_output_data = encode_step6(&zigzag_mcu_collection)?; and the
\* call of encode_step7 with it
EncodeStep6To7 ==
    /\ pc = "encode: step6"
    /\ enc_scan' \in encode_step6(zigzag_mcus)
    /\ IF enc_scan'.kind = "Ok"
       THEN /\ out_data' = [original_width |-> img_width,
                            original_height |-> img_height,
                            scan |-> enc_scan'.scan]
            /\ pc' = "encode_step7"
       ELSE /\ out_data' = out_data
            /\ pc' = "aborted"
    /\ UNCHANGED <<img_width, img_height, img_sample, mcus, zigzag_mcus,
                   read_scan, step2_result, FileData, output, written,
                   file_result, EncodeRest, enc_result>>

\* encode_step7(&jpeg_output_data) is NextFile; what it returns, encode does
NextEncode ==
    \/ EncodeSteps1And2
    \/ EncodeShowSteps3To5
    \/ EncodeStep6To7
    \/ NextFile

SpecEncode == InitEncode /\ [][NextEncode]_vars

\* what encode returned
EncodeReturned ==
    IF pc = "encode returned" THEN enc_result
    ELSE IF pc = "returned" THEN file_result
    ELSE "none"

EmptyRaster == img_width = 0 \/ img_height = 0

\* C29: encode on a raster of width 0 or height 0 returns an error and does
\* not abort; on a raster of width and height at least 1 no stage returns
\* an error.
C29_ErrorsOnlyForEmptyRaster ==
    /\ EmptyRaster =>
           /\ pc # "aborted"
           /\ EncodeReturned \in {"none", "Err"}
    /\ ~EmptyRaster => EncodeReturned \in {"none", "Ok"}

\* what holds: a raster with pixels never aborts and gets to encode_step7,
\* where only std::fs::write can fail
EncodeOfRasterWithPixels ==
    ~EmptyRaster =>
        /\ pc # "aborted"
        /\ pc # "encode returned"
        /\ (EncodeReturned = "Err" => Len(written) = 12)

\* what holds: of a raster without pixels nothing is written; encode_step2
\* makes no MCU of it and show_step2 aborts, unless encode_step1 returned
\* the error
EncodeOfEmptyRaster ==
    EmptyRaster =>
        /\ pc \in {"encode", "encode returned", "aborted"}
        /\ mcus = <<>>
        /\ (pc = "encode returned" => enc_result = "Err")

(***************************************************************************)
(* decode_step1 on a DHT whose symbols are not as many as its codewords.   *)
(***************************************************************************)

MaxDhtCount == 2
MaxDhtValues == 4

\* a DHT body: class 0 and id 0, c1 codewords of 1 bit and c2 of 2 bits,
\* then n symbols
DhtBody(c1, c2, n) ==
    <<0, c1, c2>> \o Zeros(14) \o [k \in 1..n |-> k - 1]

\* SOI, the DHT, and the end of the input or an EOI
DhtInputs ==
    { SegSOI \o Segment(MarkerDHT, DhtBody(c1, c2, n)) \o tail :
        c1 \in 0..MaxDhtCount, c2 \in 0..MaxDhtCount, n \in 0..MaxDhtValues,
        tail \in {<<>>, SegEOI} }

InitDht ==
    /\ pc = "step1"
    /\ buf \in Inputs \cup DhtInputs
    /\ DecStart
    /\ StuffIdle /\ ZigIdle /\ HuffIdle /\ LaterIdle

SpecDht == InitDht /\ [][Next]_vars

\* of a stream of DhtInputs: the sum of the 16 counts and the number of
\* symbol bytes that follow them in the segment
DhtCodewords == SumSeq(SubSeq(buf, 8, 23))
DhtSymbols == U16(buf[5], buf[6]) - 2 - 17

\* the DHT of the stream was handled
DhtHandled ==
    /\ buf \in DhtInputs
    /\ \/ Len(markers) >= 2
       \/ (pc = "done" /\ Len(markers) = 1)

\* C30: a DHT whose number of symbol bytes differs from the sum of its 16
\* counts makes decode_step1 return an error: it does not abort, and the
\* table is not accepted.
C30_DhtMismatchIsError ==
    (DhtHandled /\ DhtSymbols # DhtCodewords) =>
        /\ step1 # "Panic"
        /\ DOMAIN huffman_tables = {}
        /\ pc = "done" => step1 = "Err"

\* what holds: more symbols than codewords abort in to_cached, fewer are
\* accepted as a table of the first codewords
DhtMismatchAbortsOrIsAccepted ==
    DhtHandled =>
        IF DhtSymbols > DhtCodewords
        THEN pc = "done" /\ step1 = "Panic" /\ DOMAIN huffman_tables = {}
        ELSE /\ step1 # "Panic"
             /\ DOMAIN huffman_tables = {<<0, 0>>}
             /\ Cardinality(DOMAIN huffman_tables[<<0, 0>>]) = DhtSymbols

----------------------------------------------------------------------------
(* The scan round trip: encode_step6, to_image_data, parse_image_data,
   decode_step2 *)

\* the zigzag DUs encode_step6 was given, in the order it encodes them
EncodedDus == [k \in 1..Len(DusOf(zigzag_mcus)) |-> DusOf(zigzag_mcus)[k].du]

\* the number of pad bits to_image_data adds to the last byte
PadBits == (8 - (Len(enc_scan.scan) % 8)) % 8

\* C31: decode_step2 on the scan bits the decoder obtains from the
\* encoder's output (encode_step6 bits packed to whole bytes, stuffed and
\* unstuffed) returns Ok with exactly the encoded zigzag DUs in the same
\* order, also when the last byte carries 1 to 7 pad bits.
C31_ScanRoundTrip ==
    pc = "decoded" =>
        /\ step2_result.kind = "Ok"
        /\ step2_result.zigzag_dus = EncodedDus

\* with pad bits in the last byte decode_step2 never returns the encoded
\* DUs: it starts one more DU in the pad bits
PadBitsAreDecodedAsADu ==
    (pc = "decoded" /\ PadBits > 0) =>
        \/ step2_result.kind # "Ok"
        \/ Len(step2_result.zigzag_dus) > Len(EncodedDus)

----------------------------------------------------------------------------
(* decode_step2 on frames whose MCU holds no data unit *)

\* SOF0 frames with a sampling factor of 0: every component 0x0, Y alone
\* 0x0, and every component 1x0
SegSofZero == Segment(MarkerSOF0, SofBody(8, 8, 16, 3, 0, 0, 0, 1, 0, 1))
SegSofZeroY == Segment(MarkerSOF0, SofBody(8, 8, 16, 3, 0, 0, 17, 1, 17, 1))
SegSofZeroV == Segment(MarkerSOF0, SofBody(8, 8, 16, 3, 16, 0, 16, 1, 16, 1))
\* SOS naming no component
SegSosNone == Segment(MarkerSOS, <<0, 0, 63, 0>>)

\* complete headers with such a frame, and a stream with no SOF0 whose SOS
\* names no component, each followed by every short scan
SamplingInputs ==
    { SegSOI \o SegAPP0 \o SegDqt0 \o SegDqt1 \o f \o SegDhtDc \o SegDhtAc
        \o SegSos \o w \o SegEOI :
        f \in {SegSofZero, SegSofZeroY, SegSofZeroV},
        w \in SeqsUpTo({0, 170}, 1) }
    \cup { SegSOI \o SegSosNone \o w \o SegEOI : w \in SeqsUpTo({0, 170}, 1) }

InitSampling ==
    /\ pc = "step1"
    /\ buf \in Inputs \cup SamplingInputs
    /\ DecStart
    /\ StuffIdle /\ ZigIdle /\ HuffIdle /\ LaterIdle

SpecSampling == InitSampling /\ [][Next]_vars

\* C32: decode_step2 terminates for every CompleteJpegData decode_step1 can
\* return: its outer loop never runs for ever, also when the component
\* list is empty or every component has H*V = 0 while the scan is non-empty.
C32_Step2Terminates == pc # "hang"

\* the loop runs for ever exactly when the scan has bits and an MCU holds
\* no data unit; with a data unit in the MCU every pass moves the offset on
\* or fails
HangsOnlyWithoutDataUnits ==
    (step1 = "Ok" /\ pc \notin {"step1", "step2"}) =>
        (pc = "hang" <=> (scan # <<>> /\ McuSlots(components) = <<>>))

Step2HangsWithZeroSampling ==
    pc = "hang" /\ components # <<>>

Step2HangsWithNoComponents ==
    pc = "hang" /\ components = <<>>

----------------------------------------------------------------------------
(* encode_step6.rs, decode_step2.rs: the AC coefficients of a DU through
   the AcEncoder and back through the AcDecoder *)

\* vectors of 63 AC coefficients: those of AcInputs, one coefficient at
\* the places around the runs of 15, 16, 32 and 48 zeros and at both ends,
\* with values at the edges of the categories, and a vector with no zero
AcRoundInputs ==
    {c \in AcInputs : Len(c) = 63}
    \cup {AcWith(63, {<<p, v>>}) :
            p \in {1, 2, 16, 17, 18, 33, 49, 62, 63},
            v \in {1, -1, 2, -3, 255, -256, 512, 1023, -1023}}
    \cup {AcWith(63, {<<17, 1>>, <<34, -1>>, <<63, v>>}) : v \in {0, 1, -1023}}
    \cup {[k \in 1..63 |-> IF k % 2 = 0 THEN k ELSE -k]}

InitAcRound ==
    /\ pc = "ac_round_encode"
    /\ ace_du \in AcRoundInputs
    /\ enc_table \in {LuminanceAcTable, ChromaAcTable}
    /\ ace_idx = 0 /\ ace_run = 0 /\ ace_out = <<>>
    /\ enc_value = 0
    /\ enc_bits = [kind |-> "none"]
    /\ dec_value = [kind |-> "none"]
    /\ DctIdle /\ enc_result = "none"
    /\ EarlierIdle /\ DcIdle /\ FileIdle /\ AcIdle /\ ScanIdle /\ NumIdle

AcRoundRest == <<earlierVars, dcVars, fileVars, scanVars, numVars, dctVars,
                 enc_result, enc_table, enc_value, enc_bits, dec_value>>

\* encode_du without the DC coefficient: a fresh AcEncoder, next for each
\* coefficient, then flush(true)
AcEncodeDu ==
    /\ pc = "ac_round_encode"
    /\ \E ac \in AcEncoder_walk(ace_du, 1, Len(ace_du), 0, enc_table) :
           IF ac.kind # "Ok"
           THEN /\ pc' = "aborted"
                /\ UNCHANGED <<ace_run, ace_out, ac_scan>>
           ELSE \E eob \in AcEncoder_flush(ac.zero_run_length, enc_table, TRUE) :
                    IF eob.kind # "Ok"
                    THEN /\ pc' = "aborted"
                         /\ UNCHANGED <<ace_run, ace_out, ac_scan>>
                    ELSE /\ ace_run' = ac.zero_run_length
                         /\ ace_out' = <<ac.bits, eob.bits>>
                         /\ ac_scan' = ac.bits \o eob.bits
                         /\ pc' = "ac_round_decode"
    /\ UNCHANGED <<ace_du, ace_idx, ac_symbols, ac_result, AcRoundRest>>

\* AcDecoder::decode with the same table on the emitted bits
AcDecodeDu ==
    /\ pc = "ac_round_decode"
    /\ ac_result' \in AcDecoder_decode(ac_scan, 0, [k \in 1..64 |-> 0], enc_table)
    /\ pc' = "ac_round_done"
    /\ UNCHANGED <<ace_du, ace_idx, ace_run, ace_out, ac_symbols, ac_scan,
                   AcRoundRest>>

NextAcRound ==
    \/ AcEncodeDu
    \/ AcDecodeDu

SpecAcRound == InitAcRound /\ [][NextAcRound]_vars

\* C33: for every vector of 63 AC coefficients with |v| <= 1023 the bits of
\* a fresh AcEncoder (next for each coefficient, then flush(true)) with a
\* default AC table are decoded by AcDecoder::decode with the same table
\* into the same 63 coefficients, consuming exactly the emitted bits; also
\* with runs of 16 or more zeros, with no EOB and for an all-zero DU.
C33_AcRoundTrip ==
    /\ pc # "aborted"
    /\ pc = "ac_round_done" =>
           /\ ac_result.kind = "Ok"
           /\ ac_result.offset = Len(ac_scan)
           /\ Len(ac_result.du) = 64
           /\ \A k \in 1..63 : ac_result.du[k + 1] = ace_du[k]

\* two runs of 16 zeros, each coded with a ZRL, and a last coefficient that
\* leaves no EOB, read back with the chrominance table
C33_Witness ==
    /\ pc = "ac_round_done"
    /\ enc_table = ChromaAcTable
    /\ ace_du[17] = 1 /\ ace_du[34] = -1 /\ ace_du[63] = -1023
    /\ ace_out[2] = <<>>
    /\ ac_result.kind = "Ok"
    /\ ac_result.du[64] = -1023

\* the all-zero DU is the EOB alone
C33_AllZero ==
    /\ pc = "ac_round_done"
    /\ \A k \in 1..63 : ace_du[k] = 0
    /\ ac_scan = enc_table[0]
    /\ ac_result.kind = "Ok"

----------------------------------------------------------------------------
(* encode_step7.rs, decode_step1.rs: decode_step1 on the bytes that
   encode_step7 emitted *)

\* the tables the encoder uses for Y, Cb and Cr: encode_step4 quantizes
\* y0 and y1 with the luminance table and cb and cr with the chrominance
\* table; encode_step6 codes them with the luminance and chroma tables
EncoderTables ==
    <<[quantization |-> LUMINANCE_QUANTIZATION_TABLE,
       dc |-> DEFAULT_LUMINANCE_DC_HUFFMAN_TABLE,
       ac |-> DEFAULT_LUMINANCE_AC_HUFFMAN_TABLE],
      [quantization |-> CHROMINANCE_QUANTIZATION_TABLE,
       dc |-> DEFAULT_CHROMA_DC_HUFFMAN_TABLE,
       ac |-> DEFAULT_CHROMA_AC_HUFFMAN_TABLE],
      [quantization |-> CHROMINANCE_QUANTIZATION_TABLE,
       dc |-> DEFAULT_CHROMA_DC_HUFFMAN_TABLE,
       ac |-> DEFAULT_CHROMA_AC_HUFFMAN_TABLE]>>

\* decode_step1 is called on the bytes of the written file
DecodeWrittenFile ==
    /\ pc = "returned" /\ file_result = "Ok"
    /\ buf' = output
    /\ pc' = "step1"
    /\ UNCHANGED <<rpos, width, height, temp_components, quantization_tables,
                   huffman_tables, scan, components, markers, dqt_ids, scan_end,
                   step1, step2, zigzag_dus, outcome>>
    /\ UNCHANGED otherVars

NextFileDecode ==
    \/ NextFile
    \/ DecodeWrittenFile
    \/ BlockSOI
    \/ BlockAPP0
    \/ BlockDQT
    \/ BlockSOF0
    \/ BlockDHT
    \/ BlockSOS
    \/ ResolveComponents

SpecFileDecode == InitFile /\ [][NextFileDecode]_vars

\* the emitted DQT segments with the given id, and the emitted DHT
\* segments with the given class and id
EmittedDqts(id) == {k \in 1..Len(dqts) : dqts[k].id = id}
EmittedDhts(table_class, id) ==
    {k \in 1..Len(dhts) : dhts[k].table_class = table_class /\ dhts[k].id = id}

\* the references of SOF0 and SOS name emitted tables, those of the encoder
ReferencesInFile ==
    \A c \in 1..3 :
        LET q == out_sof0.components[c].quantization_id
            d == SOS_default.components[c].dc_huffman_id
            a == SOS_default.components[c].ac_huffman_id
        IN /\ EmittedDqts(q) # {}
           /\ \A k \in EmittedDqts(q) :
                  dqts[k] = to_dqt(EncoderTables[c].quantization, q)
           /\ EmittedDhts(0, d) # {}
           /\ \A k \in EmittedDhts(0, d) : dhts[k] = to_dht(EncoderTables[c].dc, d, 0)
           /\ EmittedDhts(1, a) # {}
           /\ \A k \in EmittedDhts(1, a) : dhts[k] = to_dht(EncoderTables[c].ac, a, 1)

\* decode_step1 has resolved the references to the tables of the encoder
ResolvedToEncoderTables ==
    /\ step1 = "Ok"
    /\ Len(components) = 3
    /\ \A c \in 1..3 :
           /\ components[c].dc_huffman_table = Cached(EncoderTables[c].dc)
           /\ components[c].ac_huffman_table = Cached(EncoderTables[c].ac)
           /\ \A x \in 0..7 : \A y \in 0..7 :
                  components[c].quatization_table[x][y] =
                      EncoderTables[c].quantization[x][y]

\* C34: the file written by encode_step7 is self-consistent in its table
\* references: every quantization id of SOF0 is the id of an emitted DQT,
\* every DC and AC id of SOS is the (class, id) of an emitted DHT, the tables
\* so referenced are those the encoder used for the component (luminance
\* for Y, chrominance for Cb and Cr), and decode_step1 on the emitted bytes
\* resolves all three references of all three components.
C34_TableReferences ==
    /\ written # <<>> => ReferencesInFile
    /\ buf # <<>> =>
           /\ buf = output
           /\ step1 \in {"none", "Ok"}
           /\ (pc = "step1" /\ rpos < Len(buf)) =>
                  /\ HeadingOk
                  /\ BlockType \in {MarkerSOI, MarkerAPP0, MarkerDQT, MarkerSOF0,
                                    MarkerDHT, MarkerSOS}
           /\ pc \notin {"step1", "returned"} => ResolvedToEncoderTables

\* the file of a 16x16 image is read back and the references are resolved
C34_Witness ==
    /\ pc = "step2"
    /\ out_data.original_width = 16
    /\ markers = <<MarkerSOI, MarkerAPP0, MarkerDQT, MarkerDQT, MarkerSOF0,
                   MarkerDHT, MarkerDHT, MarkerDHT, MarkerDHT, MarkerSOS>>
    /\ ResolvedToEncoderTables
    /\ DOMAIN huffman_tables = {<<0, 0>>, <<1, 1>>, <<0, 2>>, <<1, 3>>}

----------------------------------------------------------------------------
(* decode_step2.rs: entropy_decode_category with the tables to_cached
   builds from code lengths and distinct symbols *)

MaxPrefixBits == 3

\* n distinct symbols, one for every codeword
DistinctSymbols(n) == [i \in 1..n |-> (i * 17) % 256]

\* every short scan, and scans long enough for the codewords of 14 to 16 bits
PrefixScans ==
    SeqsUpTo({0, 1}, MaxPrefixBits)
    \cup {Zeros(16), [k \in 1..16 |-> IF k = 14 THEN 1 ELSE 0]}

InitPrefix ==
    /\ pc = "to_cached"
    /\ HuffInit
    /\ enc_table = <<>>
    /\ enc_value = 0
    /\ enc_bits = [kind |-> "none"]
    /\ dec_value = [kind |-> "none"]
    /\ DecIdle /\ StuffIdle /\ ZigIdle
    /\ DcIdle /\ FileIdle /\ AcIdle /\ RestIdle

PrefixRest == <<decVars, stuffVars, zigVars, fileVars, scanVars, numVars, thirdVars,
                codes, bits, enc_value, enc_bits, dec_value, ac_symbols,
                dc_table, dc_values, dc_pred, dc_diffs, dc_bits, dc_sum, dc_decoded>>

\* JpegHuffmanTable::to_cached on the code lengths with distinct symbols
ToCached ==
    /\ pc = "to_cached"
    /\ LET cached == to_cached(codes, DistinctSymbols(SumSeq(codes))) IN
       IF cached.kind # "Ok"
       THEN /\ pc' = "aborted"
            /\ UNCHANGED enc_table
       ELSE /\ enc_table' = cached.table
            /\ pc' = "entropy_decode_category"
    /\ UNCHANGED <<ac_scan, dc_offset, ac_result, PrefixRest>>

\* entropy_decode_category at an offset of a scan: the first codeword the
\* iteration finds at the offset is taken and the offset moves past it
EntropyDecodeCategory ==
    /\ pc = "entropy_decode_category"
    /\ \E sc \in PrefixScans : \E offset \in 0..Len(sc) :
           /\ ac_scan' = sc
           /\ dc_offset' = offset
           /\ LET ms == entropy_decode_category(sc, offset, enc_table) IN
              IF ms = {} THEN ac_result' = [kind |-> "Err", offset |-> offset]
              ELSE \E symbol \in ms :
                       ac_result' = [kind |-> "Ok", symbol |-> symbol,
                                     offset |-> offset + Len(enc_table[symbol])]
    /\ pc' = "category_decoded"
    /\ UNCHANGED <<enc_table, PrefixRest>>

NextPrefix ==
    \/ ToCached
    \/ EntropyDecodeCategory

SpecPrefix == InitPrefix /\ [][NextPrefix]_vars

\* the symbols whose codeword starts the scan at the offset of the call
MatchingSymbols ==
    {s \in DOMAIN enc_table :
        /\ dc_offset + Len(enc_table[s]) <= Len(ac_scan)
        /\ SubSeq(ac_scan, dc_offset + 1, dc_offset + Len(enc_table[s])) = enc_table[s]}

\* C35: for every table built by to_cached from valid canonical code
\* lengths and distinct symbols, at any bit offset at most one codeword of
\* the table is a prefix of the remaining bits, so the symbol returned and
\* the bits consumed do not depend on the iteration order of the table;
\* when no codeword matches the result is an error and the offset is
\* unchanged.
C35_DecodeCategoryDeterministic ==
    (KraftValid(codes) /\ pc \in {"entropy_decode_category", "category_decoded"}) =>
        /\ DOMAIN enc_table = Range(DistinctSymbols(SumSeq(codes)))
        /\ \A s, t \in DOMAIN enc_table :
               s # t => ~IsPrefix(enc_table[s], enc_table[t])
        /\ pc = "category_decoded" =>
               /\ Cardinality(MatchingSymbols) <= 1
               /\ MatchingSymbols = {} =>
                      ac_result = [kind |-> "Err", offset |-> dc_offset]
               /\ MatchingSymbols # {} =>
                      /\ ac_result.kind = "Ok"
                      /\ MatchingSymbols = {ac_result.symbol}
                      /\ ac_result.offset = dc_offset + Len(enc_table[ac_result.symbol])

\* the second codeword of a full tree is found at offset 1
C35_Witness ==
    /\ pc = "category_decoded"
    /\ codes[1] = 1 /\ codes[2] = 1 /\ codes[3] = 2
    /\ ac_scan = <<0, 1, 0>> /\ dc_offset = 1
    /\ ac_result = [kind |-> "Ok", symbol |-> 34, offset |-> 3]

\* no codeword of a valid table starts the rest of the scan
C35_NoMatch ==
    /\ pc = "category_decoded"
    /\ KraftValid(codes) /\ SumSeq(codes) > 0
    /\ ac_result.kind = "Err" /\ dc_offset < Len(ac_scan)

\* a codeword of 14 bits is found in a long scan
C35_LongCodeword ==
    /\ pc = "category_decoded"
    /\ KraftValid(codes) /\ codes[14] > 0
    /\ ac_result.kind = "Ok" /\ ac_result.offset - dc_offset = 14

----------------------------------------------------------------------------
(* encode_step6.rs: the lookups of entropy_encode_category in the default
   tables *)

\* the largest DC difference and AC coefficient the encoder is meant for
\* are 2047 and 1023; the inputs reach one past them
DcDifferenceInputs == -2048..2048
AcCoefficientInputs == -1024..1024

\* the calls the encoders make: DcEncoder::next with a difference and no
\* run; AcEncoder::next with a nonzero coefficient and a run of 0..15;
\* AcEncoder::flush with the EOB (0, None) and the ZRL (0, Some(15))
InitLookup ==
    /\ pc = "entropy_encode_category"
    /\ \/ /\ enc_table \in {LuminanceDcTable, ChromaDcTable}
          /\ enc_value \in DcDifferenceInputs
          /\ ace_run = 0
       \/ /\ enc_table \in {LuminanceAcTable, ChromaAcTable}
          /\ \/ enc_value \in AcCoefficientInputs \ {0} /\ ace_run \in 0..15
             \/ enc_value = 0 /\ ace_run \in {0, 15}
    /\ enc_bits = [kind |-> "none"]
    /\ dec_value = [kind |-> "none"]
    /\ ace_du = <<>> /\ ace_idx = 0 /\ ace_out = <<>>
    /\ DctIdle /\ enc_result = "none"
    /\ EarlierIdle /\ DcIdle /\ FileIdle /\ AcIdle /\ ScanIdle /\ NumIdle

\* entropy_encode_category(huffman_table, value, zrl)
EncodeCategoryOfRun ==
    /\ pc = "entropy_encode_category"
    /\ enc_bits' \in entropy_encode_category(enc_table, enc_value, ace_run)
    /\ pc' = IF enc_bits'.kind = "Ok" THEN "category_encoded" ELSE "aborted"
    /\ UNCHANGED <<enc_table, enc_value, dec_value, aceVars, earlierVars, dcVars,
                   fileVars, acVars, scanVars, numVars, dctVars, enc_result>>

NextLookup == EncodeCategoryOfRun

SpecLookup == InitLookup /\ [][NextLookup]_vars

IsDcTable == enc_table \in {LuminanceDcTable, ChromaDcTable}

\* the value is within the bounds the encoder is meant for
LookupInRange ==
    LET a == IF enc_value < 0 THEN -enc_value ELSE enc_value
    IN IF IsDcTable THEN a <= 2047 ELSE a <= 1023

\* the symbol of the call: (run << 4) | category(value)
LookupSymbol ==
    ace_run * 16 + get_category(IF enc_value < 0 THEN -enc_value ELSE enc_value)

\* C36: the encoder's Huffman lookup never fails on in-range input: for
\* every DC difference d with |d| <= 2047 the symbol category(d) is in both
\* default DC tables, and for every nonzero AC coefficient v with
\* |v| <= 1023 and every run 0..15 the symbol (run << 4 | category(v)), as
\* well as 0x00 and 0xF0, is in both default AC tables, so
\* entropy_encode_category never aborts within those bounds.
C36_LookupNeverFails ==
    LookupInRange =>
        /\ LookupSymbol \in DOMAIN enc_table
        /\ pc # "aborted"
        /\ pc = "category_encoded" =>
               /\ enc_bits.kind = "Ok"
               /\ IsPrefix(enc_table[LookupSymbol], enc_bits.bits)

\* the ZRL, and the largest coefficient after the longest run, were looked
\* up in the chrominance AC table
C36_Witness ==
    /\ pc = "category_encoded"
    /\ enc_table = ChromaAcTable
    /\ \/ enc_value = 0 /\ ace_run = 15 /\ enc_bits.bits = ChromaAcTable[240]
       \/ /\ enc_value = -1023 /\ ace_run = 15
          /\ enc_bits.bits = ChromaAcTable[250] \o Zeros(10)

\* one past the bounds the lookup aborts: category 12 has no DC codeword,
\* category 11 no AC codeword
LookupAbortsPastTheBounds ==
    ~LookupInRange => pc \in {"entropy_encode_category", "aborted"}

----------------------------------------------------------------------------
(* decode_step2 on a scan that ends early: the file is cut inside the
   image data, and decode_step1 returns the bits read so far *)

InitTruncated ==
    /\ pc = "encode_step2"
    /\ img_width \in {1, 16, MaxImageWidth}
    /\ img_height \in {1, 8}
    /\ img_sample \in {0, 128, 200}
    /\ mcus = <<>>
    /\ zigzag_mcus = <<>>
    /\ enc_scan = [kind |-> "none"]
    /\ read_scan = <<>>
    /\ step2_result = [kind |-> "none"]
    /\ EarlierIdle /\ VliIdle /\ DcIdle /\ FileIdle /\ AcIdle /\ NumIdle /\ ThirdIdle

\* encode_step7 writes the scan as image data; the file ends after k of its
\* bytes, with no EOI, and parse_image_data returns the bits of these bytes
WriteAndReadTruncated ==
    /\ pc = "encode_step7" /\ enc_scan.kind = "Ok"
    /\ \E k \in 0..(Len(to_image_data(enc_scan.scan)) - 1) :
           read_scan' = parse_image_data(
                            SubSeq(to_image_data(enc_scan.scan), 1, k), 0).scan
    /\ pc' = "decode_step2"
    /\ UNCHANGED <<img_width, img_height, img_sample, mcus, zigzag_mcus,
                   enc_scan, step2_result, ScanRest>>

NextTruncated ==
    \/ EncodeStep2
    \/ EncodeSteps3To5
    \/ EncodeStep6
    \/ WriteAndReadTruncated
    \/ DecodeStep2OfScan

SpecTruncated == InitTruncated /\ [][NextTruncated]_vars

\* the number of bits of the first j encoded DUs
BitsOfDus(j) ==
    Len((CHOOSE r \in encode_step6_from(DusOf(zigzag_mcus), 1, j, <<0, 0, 0>>) :
            r.kind = "Ok").scan)

\* the scan read is a part of the encoded scan that ends inside a DU
EndsInsideDu ==
    /\ Len(read_scan) < Len(enc_scan.scan)
    /\ read_scan = SubSeq(enc_scan.scan, 1, Len(read_scan))
    /\ \A j \in 0..Len(DusOf(zigzag_mcus)) : BitsOfDus(j) # Len(read_scan)

\* C37: if the scan bits end in the middle of a DU (fewer bits remain than
\* the category of the value being read, or no bits remain when the next
\* Huffman symbol is needed), decode_step2 returns an error value; it never
\* reads past the end of the scan and never aborts.
C37_TruncatedScanIsError ==
    (pc = "decoded" /\ EndsInsideDu) => step2_result.kind = "Err"

\* a scan cut inside a DU is never decoded as Ok: decode_step2 returns an
\* error or aborts in entropy_decode_value
TruncatedScanFailsOrAborts ==
    (pc = "decoded" /\ EndsInsideDu) => step2_result.kind \in {"Err", "Panic"}

\* a scan cut between the DUs of an MCU is an error: the next Huffman
\* symbol finds no bits
CutBetweenDusIsError ==
    (pc = "decoded" /\ Len(read_scan) < Len(enc_scan.scan)
        /\ read_scan = SubSeq(enc_scan.scan, 1, Len(read_scan))
        /\ \E j \in 1..Len(DusOf(zigzag_mcus)) :
               j % 4 # 0 /\ BitsOfDus(j) = Len(read_scan))
    => step2_result.kind = "Err"

TruncatedScanAborts ==
    pc = "decoded" /\ EndsInsideDu /\ step2_result.kind = "Panic"

TruncatedScanIsErr ==
    pc = "decoded" /\ EndsInsideDu /\ step2_result.kind = "Err"

----------------------------------------------------------------------------
(* encode_step6.rs: the loop of encode_step6, one encode_du per step *)

MaxMcus == 3

\* an MCU whose four DUs have different DC coefficients
DistinctDcMcu ==
    [y0 |-> DuWith({<<1, 10>>}), y1 |-> DuWith({<<1, -7>>, <<3, 1>>}),
     cb |-> DuWith({<<1, 3>>}), cr |-> DuWith({<<1, -4>>, <<64, 2>>})]

Step6McuInputs == ZigzagMcuInputs \cup {DistinctDcMcu}

\* dc_pred holds the predictions of dc_encoder_y, dc_encoder_u and
\* dc_encoder_v; ace_idx counts the DUs encoded; ace_out holds their bits
InitStep6 ==
    /\ pc = "encode_step6"
    /\ zigzag_mcus \in SeqsUpTo(Step6McuInputs, MaxMcus)
    /\ dc_pred = <<0, 0, 0>>
    /\ ace_idx = 0
    /\ ace_out = <<>>
    /\ enc_scan = [kind |-> "Ok", scan |-> <<>>]
    /\ img_width = 0 /\ img_height = 0 /\ img_sample = 0
    /\ mcus = <<>> /\ read_scan = <<>> /\ step2_result = [kind |-> "none"]
    /\ dc_table = <<>> /\ dc_values = <<>> /\ dc_diffs = <<>> /\ dc_bits = <<>>
    /\ dc_sum = 0 /\ dc_offset = 0 /\ dc_decoded = <<>>
    /\ ace_du = <<>> /\ ace_run = 0
    /\ DctIdle /\ enc_result = "none"
    /\ EarlierIdle /\ VliIdle /\ FileIdle /\ AcIdle /\ NumIdle

Step6Rest == <<earlierVars, vliVars, fileVars, acVars, numVars, dctVars, enc_result,
               img_width, img_height, img_sample, mcus, zigzag_mcus, read_scan,
               step2_result, dc_table, dc_values, dc_diffs, dc_bits, dc_sum,
               dc_offset, dc_decoded, ace_du, ace_run>>

\* scan.append(&mut encode_du(...)) for the next DU of the loop
EncodeDuOfMcu ==
    /\ pc = "encode_step6" /\ ace_idx < Len(DusOf(zigzag_mcus))
    /\ LET d == DusOf(zigzag_mcus)[ace_idx + 1] IN
       \E r \in encode_du(d.du, dc_pred[d.encoder],
                    IF d.encoder = 1 THEN LuminanceDcTable ELSE ChromaDcTable,
                    IF d.encoder = 1 THEN LuminanceAcTable ELSE ChromaAcTable) :
           IF r.kind # "Ok"
           THEN /\ pc' = "aborted"
                /\ UNCHANGED <<dc_pred, ace_idx, ace_out, enc_scan>>
           ELSE /\ dc_pred' = [dc_pred EXCEPT ![d.encoder] = r.pred]
                /\ ace_idx' = ace_idx + 1
                /\ ace_out' = Append(ace_out, r.bits)
                /\ enc_scan' = [enc_scan EXCEPT !.scan = @ \o r.bits]
                /\ pc' = pc
    /\ UNCHANGED Step6Rest

\* the loop over the MCUs is left: Ok(JpegOutputData { .. scan })
ReturnScan ==
    /\ pc = "encode_step6" /\ ace_idx = Len(DusOf(zigzag_mcus))
    /\ pc' = "encode_step7"
    /\ UNCHANGED <<dc_pred, ace_idx, ace_out, enc_scan, Step6Rest>>

NextStep6 ==
    \/ EncodeDuOfMcu
    \/ ReturnScan

SpecStep6 == InitStep6 /\ [][NextStep6]_vars

\* the k-th DU in the order Y0, Y1, Cb, Cr of the MCUs in raster order, and
\* the component it belongs to (1 for Y, 2 for Cb, 3 for Cr)
DuInOrder(k) ==
    LET m == zigzag_mcus[(k - 1) \div 4 + 1]
        slot == (k - 1) % 4
    IN IF slot = 0 THEN m.y0 ELSE IF slot = 1 THEN m.y1
       ELSE IF slot = 2 THEN m.cb ELSE m.cr
ComponentInOrder(k) ==
    IF (k - 1) % 4 <= 1 THEN 1 ELSE IF (k - 1) % 4 = 2 THEN 2 ELSE 3

\* the DC coefficient of the last of the first k DUs that belongs to
\* component c, or 0 when there is none
PredictorAfter(k, c) ==
    LET before == {j \in 1..k : ComponentInOrder(j) = c}
    IN IF before = {} THEN 0 ELSE DuInOrder(Max(before))[1]

\* the bits of the k-th DU: the DC difference against the predictor of its
\* component, then its AC coefficients with a zero run that starts at 0
ExpectedDuBits(k) ==
    LET c == ComponentInOrder(k)
        diff == DuInOrder(k)[1] - PredictorAfter(k - 1, c)
        dc_table_of == IF c = 1 THEN LuminanceDcTable ELSE ChromaDcTable
        ac_table_of == IF c = 1 THEN LuminanceAcTable ELSE ChromaAcTable
    IN dc_table_of[get_category(IF diff < 0 THEN -diff ELSE diff)]
           \o ValueBits(diff)
           \o RunLengthBits(SubSeq(DuInOrder(k), 2, 64), ac_table_of)

\* C38: in encode_step6 the DUs of each MCU are encoded in the order Y0,
\* Y1, Cb, Cr and the MCUs in raster order; one DC predictor is shared by
\* Y0 and Y1 and carried across MCUs without reset, Cb and Cr each have
\* their own predictor, encoding a DU of one component leaves the other two
\* predictors unchanged, and every DU starts with an AC zero run of 0.
C38_Step6OrderAndPredictors ==
    pc \in {"encode_step6", "encode_step7"} =>
        /\ Len(ace_out) = ace_idx
        /\ \A c \in 1..3 : dc_pred[c] = PredictorAfter(ace_idx, c)
        /\ \A k \in 1..ace_idx : ace_out[k] = ExpectedDuBits(k)
        /\ enc_scan.scan = Flatten(ace_out)
        /\ pc = "encode_step7" => ace_idx = 4 * Len(zigzag_mcus)

\* two MCUs are encoded: the predictor of Y holds the DC of the second
\* Y1, those of Cb and Cr the DC of the second cb and cr
C38_Witness ==
    /\ pc = "encode_step7"
    /\ Len(zigzag_mcus) = 2
    /\ zigzag_mcus[1] = DistinctDcMcu
    /\ zigzag_mcus[2].y0[1] = 5 /\ zigzag_mcus[2].y1[1] = -2
    /\ dc_pred = <<-2, 0, -2>>
    /\ Len(ace_out) = 8

----------------------------------------------------------------------------
(* encode_step7.rs: QuantizationTable::to_dqt and DQT::to_vec;
   decode_step1.rs: parse_dqt on the body of the segment *)

\* the two default tables, a table of 64 different entries, and a single
\* entry at every position with values up to the largest u16
DqtTableInputs ==
    {LUMINANCE_QUANTIZATION_TABLE, CHROMINANCE_QUANTIZATION_TABLE, IndexMatrix,
     [x \in 0..7 |-> [y \in 0..7 |-> 65535 - (8 * x + y) * 255]]}
    \cup {Impulse(px, py, v) : px \in 0..7, py \in 0..7, v \in {1, 255, 256, 65535}}

InitDqt ==
    /\ pc = "to_dqt"
    /\ dq_table \in DqtTableInputs
    /\ dq_input = <<>>
    /\ dct_du = [kind |-> "none"]
    /\ f_input = <<>>
    /\ f_table = <<>>
    /\ quantized = [kind |-> "none"]
    /\ EarlierIdle /\ VliIdle /\ DcIdle /\ FileIdle /\ AcIdle /\ ScanIdle /\ ThirdIdle

DqtRest == <<stuffVars, zigVars, huffVars, vliVars, dcVars, acVars, scanVars,
             thirdVars, dq_input, dq_table, dct_du, f_input, f_table, quantized,
             out_data, out_sof0, dhts, file_image_data, written, file_result,
             buf, rpos, width, height, temp_components, huffman_tables, scan,
             components, markers, scan_end, step1, step2, zigzag_dus, outcome>>

\* Q.to_dqt(id)
ToDqt ==
    /\ pc = "to_dqt"
    /\ \E id \in 0..3 : dqts' = <<to_dqt(dq_table, id)>>
    /\ pc' = "to_vec"
    /\ UNCHANGED <<output, quantization_tables, dqt_ids, DqtRest>>

\* dqt.to_vec()
DqtToVec ==
    /\ pc = "to_vec"
    /\ output' = DQT_to_vec(dqts[1])
    /\ pc' = "parse_dqt"
    /\ UNCHANGED <<dqts, quantization_tables, dqt_ids, DqtRest>>

\* parse_dqt on the bytes after the marker and the length
ParseDqt ==
    /\ pc = "parse_dqt"
    /\ LET dqt == parse_dqt(SubSeq(output, 5, Len(output))) IN
       IF dqt.kind # "Ok"
       THEN /\ pc' = "failed"
            /\ UNCHANGED <<quantization_tables, dqt_ids>>
       ELSE /\ quantization_tables' = <<dqt.table>>
            /\ dqt_ids' = <<dqt.id>>
            /\ pc' = "dqt_parsed"
    /\ UNCHANGED <<dqts, output, DqtRest>>

NextDqt ==
    \/ ToDqt
    \/ DqtToVec
    \/ ParseDqt

SpecDqt == InitDqt /\ [][NextDqt]_vars

\* C39: for every 8x8 table Q of unsigned 16-bit values and id 0..3,
\* parse_dqt applied to the body of Q.to_dqt(id).to_vec() returns Q at its
\* natural 2D positions; the 64 entries are on the wire in zigzag order and
\* are read with the precision the segment declares.
C39_DqtRoundTrip ==
    /\ pc # "failed"
    /\ pc \in {"to_vec", "parse_dqt", "dqt_parsed"} =>
           \A k \in 0..63 :
               dqts[1].table[k + 1] =
                   dq_table[TablePosition(k)[1]][TablePosition(k)[2]]
    /\ pc \in {"parse_dqt", "dqt_parsed"} =>
           /\ Len(output) = 2 + 2 + 1 + 64 * (IF output[5] \div 16 = 0 THEN 1 ELSE 2)
           /\ U16(output[3], output[4]) = Len(output) - 2
           /\ output[5] % 16 = dqts[1].id
           /\ \A k \in 0..63 :
                  U16(output[6 + 2 * k], output[7 + 2 * k]) =
                      dq_table[TablePosition(k)[1]][TablePosition(k)[2]]
    /\ pc = "dqt_parsed" =>
           /\ dqt_ids = <<dqts[1].id>>
           /\ \A x \in 0..7 : \A y \in 0..7 :
                  quantization_tables[1][x][y] = dq_table[x][y]

\* the largest entry at a position off the diagonal comes back, with id 3
C39_Witness ==
    /\ pc = "dqt_parsed"
    /\ dq_table[0][1] = 65535 /\ dq_table[1][0] = 0
    /\ dqts[1].id = 3
    /\ SubSeq(output, 1, 9) = <<MarkerPrefix, MarkerDQT, 0, 131, 19, 0, 0, 255, 255>>
    /\ quantization_tables[1][0][1] = 65535

----------------------------------------------------------------------------
(* encode_step2.rs: encode_step2 on planes whose samples differ from place
   to place *)

\* the sample at an index of a plane: every byte value at every place as
\* img_sample runs over the bytes
PlaneSample(plane_name, index) ==
    CASE plane_name = "y" -> (img_sample + index) % 256
      [] plane_name = "u" -> (img_sample + 2 * index + 85) % 256
      [] plane_name = "v" -> (img_sample + 3 * index + 170) % 256

PlaneOf(plane_name, size) == [k \in 1..size |-> PlaneSample(plane_name, k - 1)]

\* the indices encode_step2 reads from the three planes
encode_step2_reads(pw, ph) ==
    UNION {{[plane |-> "y", index |-> (y + row) * pw + (x + col)],
            [plane |-> "y", index |-> (y + row) * pw + (x + col + 8)],
            [plane |-> "u", index |-> (y + row) * (pw \div 2) + (x \div 2 + col)],
            [plane |-> "v", index |-> (y + row) * (pw \div 2) + (x \div 2 + col)]} :
           y \in {8 * j : j \in 0..((ph + 7) \div 8 - 1)},
           x \in {16 * i : i \in 0..((pw + 15) \div 16 - 1)},
           row \in 0..7, col \in 0..7}

PlaneSize(plane_name, pw, ph) == IF plane_name = "y" THEN pw * ph ELSE (pw \div 2) * ph

InitPlanes ==
    /\ pc = "encode_step2"
    /\ img_width \in {1, 16, MaxImageWidth}
    /\ img_height \in {1, 8, MaxImageHeight}
    /\ img_sample \in 0..255
    /\ mcus = <<>>
    /\ zigzag_mcus = <<>>
    /\ enc_scan = [kind |-> "none"]
    /\ read_scan = <<>>
    /\ step2_result = [kind |-> "none"]
    /\ EarlierIdle /\ VliIdle /\ DcIdle /\ FileIdle /\ AcIdle /\ NumIdle /\ ThirdIdle

\* encode_step2: a read past the end of a plane aborts
EncodeStep2Planes ==
    /\ pc = "encode_step2"
    /\ LET pw == padded_width(img_width)
           ph == padded_height(img_height)
       IN IF \E r \in encode_step2_reads(pw, ph) :
                 r.index >= PlaneSize(r.plane, pw, ph)
          THEN /\ pc' = "aborted"
               /\ UNCHANGED mcus
          ELSE /\ mcus' = encode_step2(img_width,
                              PlaneOf("y", PlaneSize("y", pw, ph)),
                              PlaneOf("u", PlaneSize("u", pw, ph)),
                              PlaneOf("v", PlaneSize("v", pw, ph)),
                              img_height)
               /\ pc' = "encode_step3"
    /\ UNCHANGED <<img_width, img_height, img_sample, zigzag_mcus, enc_scan,
                   read_scan, step2_result, ScanRest>>

NextPlanes == EncodeStep2Planes

SpecPlanes == InitPlanes /\ [][NextPlanes]_vars

\* the sample of a plane at a row and a column of its raster
SampleAt(plane_name, plane_width, plane_row, plane_col) ==
    PlaneSample(plane_name, plane_row * plane_width + plane_col)

\* C40: encode_step2 stores every sample byte b as the signed 8-bit value
\* b - 128 without an overflow abort; with padded_width a multiple of 16 and
\* padded_height a multiple of 8 every index read from the Y plane and from
\* the Cb/Cr planes of half the width is inside the plane, and Y1 is the
\* 8 columns to the right of Y0.
C40_Step2SamplesAndIndices ==
    LET pw == padded_width(img_width)
        ph == padded_height(img_height)
        across == pw \div 16
    IN /\ pw % 16 = 0 /\ ph % 8 = 0
       /\ pc # "aborted"
       /\ \A r \in encode_step2_reads(pw, ph) :
              r.index >= 0 /\ r.index < PlaneSize(r.plane, pw, ph)
       /\ pc = "encode_step3" =>
              /\ Len(mcus) = across * (ph \div 8)
              /\ \A m \in 1..Len(mcus) : \A row \in 0..7 : \A col \in 0..7 :
                     LET top == 8 * ((m - 1) \div across)
                         left == 16 * ((m - 1) % across)
                     IN /\ mcus[m].y0[row][col] =
                               SampleAt("y", pw, top + row, left + col) - 128
                        /\ mcus[m].y1[row][col] =
                               SampleAt("y", pw, top + row, left + 8 + col) - 128
                        /\ mcus[m].cb[row][col] =
                               SampleAt("u", pw \div 2, top + row, left \div 2 + col) - 128
                        /\ mcus[m].cr[row][col] =
                               SampleAt("v", pw \div 2, top + row, left \div 2 + col) - 128
                        /\ mcus[m].y0[row][col] \in -128..127
                        /\ mcus[m].y1[row][col] \in -128..127

\* two rows of two MCUs; 0 becomes -128, 128 becomes 0, 255 becomes 127, and
\* the last sample of the Y plane is the last of Y1 in the last MCU
C40_Witness ==
    /\ pc = "encode_step3"
    /\ img_width = MaxImageWidth /\ img_height = MaxImageHeight
    /\ img_sample = 0
    /\ Len(mcus) = 4
    /\ mcus[1].y0[0][0] = -128
    /\ mcus[1].y0[4][0] = 0
    /\ mcus[2].y1[7][7] = 127
    /\ mcus[1].y1[0][0] = 8 - 128
    /\ mcus[3].cb[0][0] = ((2 * 8 * 16 + 85) % 256) - 128
    /\ mcus[4].y1[7][7] = PlaneSample("y", 32 * 16 - 1) - 128

====
